---- MODULE Spec2Model ----
(***************************************************************************)
(* State-machine model of the cnerium / vix async core:                    *)
(*   - task<T> and its promise (lazy start, await, start, destroy)         *)
(*   - the single-threaded scheduler (post / run / stop)                   *)
(*   - cancel_state / cancel_source / cancel_token                         *)
(*   - the network awaitable (asio_awaitable) and the pool awaitable       *)
(*   - spawn_detached and its internal detached coroutine                  *)
(* Coroutines are executed one step at a time by the thread that resumed   *)
(* them; user code, the loop thread, the net thread and a pool worker      *)
(* interleave freely.                                                      *)
(***************************************************************************)
EXTENDS Integers, Sequences, FiniteSets, TLC

\* ---------------------------------------------------------------- bounds
NFrames == 3
NSlots == 2
MaxJobs == 3
NCancel == 1
MaxSig == 2
MaxLockJobs == 2
MaxCtxPosts == 2
MaxReq == 2
NTokens == 4

Frames == 1..NFrames
Slots == 1..NSlots
CancelStates == 1..NCancel
TokenIds == 1..NTokens

Threads == {"loop", "user", "net", "worker"}
PostThreads == {"user", "net", "worker"}

\* a task object that does not exist (not constructed / already destructed)
NoTask == -1
\* an empty std::optional<T>
NoVal == -1

\* coroutine bodies: what a task's coroutine does once it is resumed
AwaitKinds == {"await", "awaitc"}
TaskKinds == {"ret", "throw", "yield", "await", "awaitc"}
IoKinds == {"net", "pool", "yield", "await"}
TokenKinds == {"net", "pool"}

VARIABLES
  frame,           \* coroutine frames: promise state + suspension point
  nalloc,          \* number of coroutine frames allocated so far
  nres,            \* frames allocated or reserved for a child still to be created
  slot,            \* task values held by user code: h_ (0 = empty), NoTask = no object
  q,               \* scheduler::q_ (job ids)
  stop_requested,  \* scheduler::stop_requested_
  running_,        \* scheduler::running_
  loop,            \* position of the thread inside scheduler::run()
  cur,             \* per thread: the coroutine it is currently executing (0 = none)
  posting,         \* per posting thread: the post() call in progress
  jobs,            \* every job ever built by post(), indexed by id
  enq,             \* history: job ids in the order they were appended to q_
  disp,            \* history: job ids in the order run() dequeued them
  returned,        \* history: job ids whose post() call has returned
  cancelled,       \* cancel_state::cancelled_ per cancel state
  reqDone,         \* history: number of request_cancel() calls that returned, per state
  tokens,          \* cancel_token objects of user code: st_ and, as history, their origin
  netops,          \* started network operations whose completion callback is pending
  poolq,           \* thread_pool::q_: wrappers submitted to the pool (by awaiting frame)
  sig,             \* signal_set: on_signal_, pending_, waiter_ and the capture history
  io,              \* io_context: which lazy services were built, and its teardown
  mtx              \* scheduler::m_: its owner, and each thread's call in progress

vars == <<frame, nalloc, nres, slot, q, stop_requested, running_, loop, cur,
          posting, jobs, enq, disp, returned, cancelled, reqDone, tokens, netops, poolq,
          sig, io, mtx>>

\* the services around the core: signal bridge, runtime context, scheduler lock
aux == <<sig, io, mtx>>

\* ------------------------------------------------------------ frames
\* promise_common: continuation, exception, detached; promise_value<T>: value
NoFrame ==
  [st |-> "none", pc |-> "init", kind |-> "ret", cont |-> 0, exc |-> "none",
   val |-> NoVal, det |-> FALSE, tmp |-> 0, tok |-> 0,
   aex |-> "none", aec |-> "ok", aval |-> NoVal,
   ran |-> FALSE, res |-> {}, dcount |-> 0, dby |-> "none",
   ext |-> FALSE, adisp |-> 0, ajobs |-> 0, rawp |-> FALSE, stale |-> FALSE,
   fnruns |-> 0, fnby |-> {}, fnout |-> "none", sp |-> 0, swal |-> "none",
   uw |-> 0, nullp |-> FALSE, tsaw |-> <<>>,
   nstart |-> 0, csus |-> FALSE]

\* a promise whose initial_suspend does not suspend: the body starts in the call
NewFrameEager(k, tk) ==
  [NoFrame EXCEPT !.st = "live", !.kind = k, !.tok = tk, !.pc = "init", !.ran = TRUE]

\* calling a task-returning coroutine function: frame allocation,
\* get_return_object, and initial_suspend (suspend_always): the frame is
\* left suspended at its initial suspension point, no body code has run.
NewFrame(k, tk) ==
  [NoFrame EXCEPT !.st = "live", !.kind = k, !.tok = tk, !.pc = "init"]

Need(k) == IF k \in AwaitKinds THEN 2 ELSE 1

\* frames reachable through the task temporaries a frame holds
RECURSIVE Owned(_, _)
Owned(fr, f) == IF f = 0 THEN {} ELSE {f} \cup Owned(fr, fr[f].tmp)

\* coroutine_handle::destroy: the frame and the task objects living in it
\* (temporaries, parameters); nothing of a destroyed frame is kept but the
\* history of its destruction: how often, by whom, for which spawn, and the
\* failure that went down with a frame that destroyed itself
Destroy(fr, f, by) ==
  [g \in Frames |->
     IF g \in Owned(fr, f)
       THEN [NoFrame EXCEPT !.st = "dead", !.dcount = fr[g].dcount + 1,
                            !.dby = IF g = f THEN by ELSE "task",
                            !.det = fr[g].det, !.rawp = fr[g].rawp,
                            !.stale = fr[g].stale, !.sp = fr[g].sp,
                            !.swal = IF by = "self" THEN fr[g].exc ELSE "none"]
       ELSE fr[g]]

\* task::destroy
TaskDestroy(fr, h) == IF h # 0 THEN Destroy(fr, h, "task") ELSE fr

\* coroutine_handle::done
Done(fr, h) == fr[h].pc = "done"

\* coroutine_handle::resume on a suspended coroutine: where it continues
ResumePc(pc) ==
  CASE pc = "init" -> "body"
    [] pc = "aw_task" -> "res_task"
    [] pc = "aw_sched" -> "res_sched"
    [] pc = "aw_net" -> "res_net"
    [] pc = "aw_pool" -> "res_pool"
    [] pc = "aw_sig" -> "res_sig"
    [] OTHER -> pc

Resumable(fr, h) == fr[h].st = "live" /\ fr[h].pc \in {"init", "aw_sched", "aw_net", "aw_pool"}

\* mark every awaiter up the continuation chain as having waited on an
\* external producer
RECURSIVE Ancestors(_, _)
Ancestors(fr, f) == IF f = 0 THEN {} ELSE {f} \cup Ancestors(fr, fr[f].cont)

\* ------------------------------------------------------------ cancel
\* a request_cancel that flips the flag instead of setting it
CancelStoreToggle(old) == ~old

\* cancel_state::request_cancel
CancelStore(old) == TRUE

\* cancel_state::is_cancelled
StateIsCancelled(c) == cancelled[c]

\* cancel_source::is_cancelled
SourceIsCancelled(c) == IF c # 0 THEN StateIsCancelled(c) ELSE FALSE

\* a token() that hands out an empty token
SourceTokenEmpty(c) == 0

\* cancel_source::token: a token sharing the source's state
SourceToken(c) == c

\* cancel_token(): st_ stays null
DefaultToken == [ex |-> TRUE, st |-> 0, from |-> 0]

\* cancel_token(const cancel_token&): the shared_ptr is copied
TokenCopy(tk) == [tk EXCEPT !.ex = TRUE]

\* no cancel_token object
NoToken == [ex |-> FALSE, st |-> 0, from |-> 0]

\* cancel_token::can_cancel
TokenCanCancel(tk) == tk # 0

\* an is_cancelled that reads one process-wide flag, whatever the token holds
TokenIsCancelledGlobal(tk) == \E c \in CancelStates : StateIsCancelled(c)

\* cancel_token::is_cancelled
TokenIsCancelled(tk) == IF tk # 0 THEN StateIsCancelled(tk) ELSE FALSE

\* ------------------------------------------------------------ scheduler
\* a post that pushes at the front of the queue
SchedEnqueueFront(qq, id) == <<id>> \o qq

\* scheduler::post, the critical section: q_.emplace_back(job)
SchedEnqueue(qq, id) == Append(qq, id)

\* scheduler::run, the critical section: q_.front() / q_.pop_front()
SchedFront(qq) == Head(qq)

\* a dequeue that moves the front job out but leaves it in the queue
SchedPopKeep(qq) == qq

SchedPop(qq) == Tail(qq)

IdlePost == [ph |-> "idle", id |-> 0, op |-> "none", arg |-> 0]

\* the job object built by post: what it does, for which handle, on whose
\* behalf; before = the post() calls that had returned when it was built,
\* runs = how many times run() invoked it, atstop = it was in the queue
\* when stop() was called, late = it was built after a stop() call, with no
\* run() call active
NewJob(k, h, op) ==
  [kind |-> k, h |-> h, op |-> op, before |-> returned, runs |-> 0,
   atstop |-> FALSE, late |-> stop_requested /\ ~running_]

\* a whole post() call made from inside a coroutine step
InlinePost(k, h) ==
  /\ Len(jobs) < MaxJobs
  /\ jobs' = Append(jobs, NewJob(k, h, "await"))
  /\ q' = SchedEnqueue(q, Len(jobs) + 1)
  /\ enq' = Append(enq, Len(jobs) + 1)
  /\ returned' = returned \cup {Len(jobs) + 1}

\* signal_set after construction: no callback, nothing pending, no
\* waiter; caught and trace are history
NoSignals ==
  [cb |-> FALSE, pending |-> <<>>, waiters |-> {},
   caught |-> <<>>, trace |-> <<>>, abort |-> FALSE]

\* no io_context object: cls = which class, built = services constructed,
\* up = objects not yet torn down, torn = teardown order (history)
NoContext ==
  [cls |-> "none", phase |-> "none", built |-> {}, up |-> {}, torn |-> <<>>,
   step |-> 0, posts |-> 0, lost |-> FALSE]

IdleCall == [f |-> "none", ph |-> "idle", k |-> "none"]

\* scheduler::m_ unlocked, no member function in progress on any thread
MutexFree ==
  [owner |-> "none", hold |-> "none", op |-> [t \in Threads |-> IdleCall],
   seen |-> NoVal, wake |-> {}]

Init ==
  /\ frame = [f \in Frames |-> NoFrame]
  /\ nalloc = 0
  /\ nres = 0
  /\ slot = [s \in Slots |-> NoTask]
  /\ q = <<>>
  /\ stop_requested = FALSE
  /\ running_ = FALSE
  /\ loop = [pc |-> "idle", job |-> 0]
  /\ cur = [t \in Threads |-> 0]
  /\ posting = [t \in PostThreads |-> IdlePost]
  /\ jobs = <<>>
  /\ enq = <<>>
  /\ disp = <<>>
  /\ returned = {}
  /\ cancelled = [c \in CancelStates |-> FALSE]
  /\ reqDone = [c \in CancelStates |-> 0]
  /\ tokens = [k \in TokenIds |-> NoToken]
  /\ netops = {}
  /\ poolq = <<>>
  /\ sig = NoSignals
  /\ io = NoContext
  /\ mtx = MutexFree

\* ------------------------------------------------------------ user code
UserIdle == posting["user"].ph = "idle"

\* no thread is executing one of the coroutines in S
NotExecuting(S) == \A t \in Threads : cur[t] \notin S

OwnedBy(h) == IF h \in Frames THEN Owned(frame, h) ELSE {}

\* t = some_coroutine(...): a task value bound to a fresh suspended frame
UCreate(s, k, tk) ==
  /\ UserIdle
  /\ slot[s] = NoTask
  /\ nres + Need(k) <= NFrames
  /\ tk # 0 => k \in TokenKinds
  /\ frame' = [frame EXCEPT ![nalloc + 1] = NewFrame(k, tk)]
  /\ nalloc' = nalloc + 1
  /\ nres' = nres + Need(k)
  /\ slot' = [slot EXCEPT ![s] = nalloc + 1]
  /\ UNCHANGED <<q, stop_requested, running_, loop, cur, posting, jobs, enq,
                 disp, returned, cancelled, reqDone, tokens, netops, poolq, aux>>

\* a move constructor that leaves the source's handle in place
TaskMoveConstructCopy(sl, a, b) == [sl EXCEPT ![b] = sl[a]]

\* task(task&& other): h_(other.h_), other.h_ = {}
TaskMoveConstruct(sl, a, b) == [sl EXCEPT ![b] = sl[a], ![a] = 0]

UMoveConstruct(a, b) ==
  /\ UserIdle
  /\ a # b /\ slot[a] # NoTask /\ slot[b] = NoTask
  /\ slot' = TaskMoveConstruct(slot, a, b)
  /\ UNCHANGED <<frame, nalloc, nres, q, stop_requested, running_, loop, cur,
                 posting, jobs, enq, disp, returned, cancelled, reqDone, tokens, netops,
                 poolq, aux>>

\* task& operator=(task&& other): destroy(); h_ = other.h_; other.h_ = {}
UMoveAssign(a, b) ==
  /\ UserIdle
  /\ a # b /\ slot[a] # NoTask /\ slot[b] # NoTask
  /\ NotExecuting(OwnedBy(slot[b]))
  /\ frame' = TaskDestroy(frame, slot[b])
  /\ slot' = [slot EXCEPT ![b] = slot[a], ![a] = 0]
  /\ UNCHANGED <<nalloc, nres, q, stop_requested, running_, loop, cur,
                 posting, jobs, enq, disp, returned, cancelled, reqDone, tokens, netops,
                 poolq, aux>>

\* ~task(): destroy()
UDrop(s) ==
  /\ UserIdle
  /\ slot[s] # NoTask
  /\ NotExecuting(OwnedBy(slot[s]))
  /\ frame' = TaskDestroy(frame, slot[s])
  /\ slot' = [slot EXCEPT ![s] = NoTask]
  /\ UNCHANGED <<nalloc, nres, q, stop_requested, running_, loop, cur,
                 posting, jobs, enq, disp, returned, cancelled, reqDone, tokens, netops,
                 poolq, aux>>

\* scheduler::post up to the end of its critical section: the job is built
\* and appended under the mutex; notify_one and the return are still to come
PostBegin(t, k, h, op, arg) ==
  /\ Len(jobs) < MaxJobs
  /\ jobs' = Append(jobs, NewJob(k, h, op))
  /\ q' = SchedEnqueue(q, Len(jobs) + 1)
  /\ enq' = Append(enq, Len(jobs) + 1)
  /\ posting' = [posting EXCEPT ![t] =
                   [ph |-> "enq", id |-> Len(jobs) + 1, op |-> op, arg |-> arg]]

\* a start that posts the handle without marking the promise detached
TaskStartBeginNoFlag(s) ==
  /\ frame' = frame
  /\ PostBegin("user", "resume", slot[s], "start", s)

\* task::start, up to the end of the critical section of sched.post:
\* detached = true; sched.post(h_)
TaskStartBegin(s) ==
  /\ frame' = [frame EXCEPT ![slot[s]].det = TRUE]
  /\ PostBegin("user", "resume", slot[s], "start", s)

\* std::move(t).start(sched) on a valid task that was never handed out raw
UStart(s) ==
  /\ UserIdle
  /\ slot[s] \in Frames
  /\ ~frame[slot[s]].rawp
  /\ TaskStartBegin(s)
  /\ UNCHANGED <<nalloc, nres, slot, stop_requested, running_, loop, cur,
                 disp, returned, cancelled, reqDone, tokens, netops, poolq, aux>>

\* a start that keeps the handle in the task value
TaskStartEndKeep(sl, s) == sl

\* task::start, after sched.post returned: h_ = {}
TaskStartEnd(sl, s) == [sl EXCEPT ![s] = 0]

\* ctx.post(t.handle()): the examples' way of kicking off a task the caller keeps
UPostHandle(s) ==
  /\ UserIdle
  /\ slot[s] \in Frames
  /\ frame[slot[s]].pc = "init" /\ ~frame[slot[s]].rawp /\ ~frame[slot[s]].det
  /\ frame' = [frame EXCEPT ![slot[s]].rawp = TRUE]
  /\ PostBegin("user", "resume", slot[s], "post", s)
  /\ UNCHANGED <<nalloc, nres, slot, stop_requested, running_, loop, cur,
                 disp, returned, cancelled, reqDone, tokens, netops, poolq, aux>>

\* ctx.post(fn) with a plain callable, from any thread
PostFn(t) ==
  /\ posting[t].ph = "idle" /\ cur[t] = 0
  /\ PostBegin(t, "fn", 0, "post", 0)
  /\ UNCHANGED <<frame, nalloc, nres, slot, stop_requested, running_, loop,
                 cur, disp, returned, cancelled, reqDone, tokens, netops, poolq, aux>>

\* scheduler::post: notify_one and return to the caller
PostReturn(t) ==
  /\ posting[t].ph = "enq"
  /\ returned' = returned \cup {posting[t].id}
  /\ posting' = [posting EXCEPT ![t] = IdlePost]
  /\ slot' = IF posting[t].op = "start" THEN TaskStartEnd(slot, posting[t].arg)
                                         ELSE slot
  /\ UNCHANGED <<frame, nalloc, nres, q, stop_requested, running_, loop, cur,
                 jobs, enq, disp, cancelled, reqDone, tokens, netops, poolq, aux>>

\* history: the jobs that are in the queue as stop() takes the lock
MarkAtStop(js, qq) ==
  [j \in 1..Len(js) |->
     IF \E i \in 1..Len(qq) : qq[i] = j THEN [js[j] EXCEPT !.atstop = TRUE]
                                        ELSE js[j]]

\* scheduler::stop: stop_requested_ = true under the lock, notify_all
SchedStop ==
  /\ stop_requested' = TRUE
  /\ jobs' = MarkAtStop(jobs, q)

\* ctx.stop() called by a thread other than the loop thread
UStop ==
  /\ ~stop_requested
  /\ SchedStop
  /\ UNCHANGED <<frame, nalloc, nres, slot, q, running_, loop, cur, posting,
                 enq, disp, returned, cancelled, reqDone, tokens, netops, poolq, aux>>

\* ctx.post([&]{ ctx.stop(); }): a job that stops the loop from inside
PostStopFn(t) ==
  /\ posting[t].ph = "idle" /\ cur[t] = 0
  /\ ~stop_requested
  /\ \A j \in 1..Len(jobs) : jobs[j].kind # "stop"
  /\ PostBegin(t, "stop", 0, "post", 0)
  /\ UNCHANGED <<frame, nalloc, nres, slot, stop_requested, running_, loop,
                 cur, disp, returned, cancelled, reqDone, tokens, netops, poolq, aux>>

\* cancel_source::request_cancel
RequestCancel(c) ==
  /\ reqDone[c] < MaxReq
  /\ cancelled' = [cancelled EXCEPT ![c] = CancelStore(@)]
  /\ reqDone' = [reqDone EXCEPT ![c] = @ + 1]
  /\ UNCHANGED <<frame, nalloc, nres, slot, q, stop_requested, running_, loop,
                 cur, posting, jobs, enq, disp, returned, netops, poolq, tokens, aux>>

\* cancel_token ct;
TokDefault(k) ==
  /\ ~tokens[k].ex
  /\ tokens' = [tokens EXCEPT ![k] = DefaultToken]
  /\ UNCHANGED <<frame, nalloc, nres, slot, q, stop_requested, running_, loop,
                 cur, posting, jobs, enq, disp, returned, cancelled, reqDone,
                 netops, poolq, aux>>

\* auto ct = src.token();
TokFromSource(k, c) ==
  /\ ~tokens[k].ex
  /\ tokens' = [tokens EXCEPT ![k] = [ex |-> TRUE, st |-> SourceToken(c), from |-> c]]
  /\ UNCHANGED <<frame, nalloc, nres, slot, q, stop_requested, running_, loop,
                 cur, posting, jobs, enq, disp, returned, cancelled, reqDone,
                 netops, poolq, aux>>

\* cancel_token ct2 = ct;
TokCopy(j, k) ==
  /\ j # k /\ tokens[j].ex /\ ~tokens[k].ex
  /\ tokens' = [tokens EXCEPT ![k] = TokenCopy(tokens[j])]
  /\ UNCHANGED <<frame, nalloc, nres, slot, q, stop_requested, running_, loop,
                 cur, posting, jobs, enq, disp, returned, cancelled, reqDone,
                 netops, poolq, aux>>

\* a cancel_token goes out of scope
TokDrop(k) ==
  /\ tokens[k].ex
  /\ tokens' = [tokens EXCEPT ![k] = NoToken]
  /\ UNCHANGED <<frame, nalloc, nres, slot, q, stop_requested, running_, loop,
                 cur, posting, jobs, enq, disp, returned, cancelled, reqDone,
                 netops, poolq, aux>>

\* ------------------------------------------------------------ run()
\* scheduler::run entry: running_ = true
RunStart ==
  /\ loop.pc \in {"idle", "exited"}
  /\ loop' = [pc |-> "wait", job |-> 0]
  /\ running_' = TRUE
  /\ UNCHANGED <<frame, nalloc, nres, slot, q, stop_requested, cur, posting,
                 jobs, enq, disp, returned, cancelled, reqDone, tokens, netops, poolq, aux>>

\* scheduler::run: cv_.wait returned with a job in the queue
RunDequeue ==
  /\ loop.pc = "wait"
  /\ q # <<>>
  /\ loop' = [pc |-> "job", job |-> SchedFront(q)]
  /\ q' = SchedPop(q)
  /\ disp' = Append(disp, SchedFront(q))
  /\ UNCHANGED <<frame, nalloc, nres, slot, stop_requested, running_, cur,
                 posting, jobs, enq, returned, cancelled, reqDone, tokens, netops, poolq, aux>>

\* a run that breaks as soon as stop is requested, jobs pending or not
RunExitEarly ==
  /\ loop.pc = "wait"
  /\ stop_requested
  /\ loop' = [pc |-> "exited", job |-> 0]
  /\ running_' = FALSE
  /\ UNCHANGED <<frame, nalloc, nres, slot, q, stop_requested, cur, posting,
                 jobs, enq, disp, returned, cancelled, reqDone, tokens, netops, poolq, aux>>

\* a run whose wait predicate is "!q_.empty()" alone: with an empty queue
\* it stays blocked whatever stop_requested_ is
RunExitNoStop ==
  /\ loop.pc = "wait"
  /\ q = <<>>
  /\ FALSE
  /\ loop' = [pc |-> "exited", job |-> 0]
  /\ running_' = FALSE
  /\ UNCHANGED <<frame, nalloc, nres, slot, q, stop_requested, cur, posting,
                 jobs, enq, disp, returned, cancelled, reqDone, tokens, netops, poolq, aux>>

\* a run that clears the stop request as it returns, so that the next
\* run() blocks again
RunExitReset ==
  /\ loop.pc = "wait"
  /\ q = <<>>
  /\ stop_requested
  /\ loop' = [pc |-> "exited", job |-> 0]
  /\ running_' = FALSE
  /\ stop_requested' = FALSE
  /\ UNCHANGED <<frame, nalloc, nres, slot, q, cur, posting,
                 jobs, enq, disp, returned, cancelled, reqDone, tokens, netops, poolq, aux>>

\* scheduler::run: queue empty and stop requested: break, running_ = false
RunExit ==
  /\ loop.pc = "wait"
  /\ q = <<>>
  /\ stop_requested
  /\ loop' = [pc |-> "exited", job |-> 0]
  /\ running_' = FALSE
  /\ UNCHANGED <<frame, nalloc, nres, slot, q, stop_requested, cur, posting,
                 jobs, enq, disp, returned, cancelled, reqDone, tokens, netops, poolq, aux>>

\* history: run() invokes the job it dequeued
JobInvoked(js, j) == [js EXCEPT ![j].runs = @ + 1]

\* j.fn() for a plain callable
RunExecFn ==
  /\ loop.pc = "job"
  /\ jobs[loop.job].kind = "fn"
  /\ jobs' = JobInvoked(jobs, loop.job)
  /\ loop' = [pc |-> "wait", job |-> 0]
  /\ UNCHANGED <<frame, nalloc, nres, slot, q, stop_requested, running_, cur,
                 posting, enq, disp, returned, cancelled, reqDone, tokens, netops,
                 poolq, aux>>

\* j.fn() for a callable that calls ctx.stop(): stop() runs on the loop
\* thread, outside the scheduler's lock
RunExecStop ==
  /\ loop.pc = "job"
  /\ jobs[loop.job].kind = "stop"
  /\ stop_requested' = TRUE
  /\ jobs' = JobInvoked(MarkAtStop(jobs, q), loop.job)
  /\ loop' = [pc |-> "wait", job |-> 0]
  /\ UNCHANGED <<frame, nalloc, nres, slot, q, running_, cur,
                 posting, enq, disp, returned, cancelled, reqDone, tokens, netops,
                 poolq, aux>>

\* j.fn() for the job built by post(coroutine_handle): if (h) h.resume()
RunExecResume ==
  /\ loop.pc = "job"
  /\ jobs[loop.job].kind = "resume"
  /\ LET h == jobs[loop.job].h IN
       /\ Resumable(frame, h)
       /\ frame' = [frame EXCEPT ![h].pc = ResumePc(@),
                                 ![h].res = @ \cup {<<"loop", "job">>}]
       /\ cur' = [cur EXCEPT !["loop"] = h]
  /\ jobs' = JobInvoked(jobs, loop.job)
  /\ loop' = [loop EXCEPT !.pc = "coro"]
  /\ UNCHANGED <<nalloc, nres, slot, q, stop_requested, running_, posting,
                 enq, disp, returned, cancelled, reqDone, tokens, netops, poolq, aux>>

\* the same job when the frame behind the handle is gone (or cannot be
\* resumed): undefined behaviour; the process dies or the access goes
\* unnoticed
RunExecStale ==
  /\ loop.pc = "job"
  /\ jobs[loop.job].kind = "resume"
  /\ LET h == jobs[loop.job].h IN
       /\ ~Resumable(frame, h)
       /\ frame' = [frame EXCEPT ![h].stale = TRUE]
  /\ jobs' = JobInvoked(jobs, loop.job)
  /\ \E out \in {"wait", "crashed"} : loop' = [pc |-> out, job |-> 0]
  /\ UNCHANGED <<nalloc, nres, slot, q, stop_requested, running_, cur, posting,
                 enq, disp, returned, cancelled, reqDone, tokens, netops, poolq, aux>>

\* ------------------------------------------------------------ coroutines
\* the coroutine f is executing on thread t
Executing(t, f) == f # 0 /\ cur[t] = f /\ frame[f].st = "live"

\* resume() returns to its caller: on the loop thread the job is over
Leave(t) ==
  /\ cur' = [cur EXCEPT ![t] = 0]
  /\ loop' = IF t = "loop" THEN [pc |-> "wait", job |-> 0] ELSE loop

\* a return_value that reaches final suspension without storing the value
ReturnValueLost(fr, f, v) == [fr EXCEPT ![f].pc = "fin", ![f].ran = TRUE]

\* promise_value::return_value (return_void for task<void>), then final_suspend
ReturnValue(fr, f, v) == [fr EXCEPT ![f].val = v, ![f].pc = "fin", ![f].ran = TRUE]

\* an unhandled_exception that stores nothing
UnhandledExceptionDropped(fr, f, e) == [fr EXCEPT ![f].pc = "fin", ![f].ran = TRUE]

\* promise_common::unhandled_exception, then final_suspend
UnhandledException(fr, f, e) ==
  [fr EXCEPT ![f].exc = e, ![f].pc = "fin", ![f].ran = TRUE]

MarkExt(fr, f) ==
  [g \in Frames |-> IF g \in Ancestors(fr, f) THEN [fr[g] EXCEPT !.ext = TRUE]
                                               ELSE fr[g]]

\* body "co_return 42;" (compute_value in the task smoke test)
BodyRet(t) ==
  LET f == cur[t] IN
  /\ Executing(t, f) /\ frame[f].pc = "body" /\ frame[f].kind = "ret"
  /\ frame' = ReturnValue(frame, f, 42)
  /\ UNCHANGED <<nalloc, nres, slot, q, stop_requested, running_, loop, cur,
                 posting, jobs, enq, disp, returned, cancelled, reqDone, tokens, netops,
                 poolq, aux>>

\* body "throw std::runtime_error("boom");" (throws_task in the smoke test)
BodyThrow(t) ==
  LET f == cur[t] IN
  /\ Executing(t, f) /\ frame[f].pc = "body" /\ frame[f].kind = "throw"
  /\ frame' = UnhandledException(frame, f, "boom")
  /\ UNCHANGED <<nalloc, nres, slot, q, stop_requested, running_, loop, cur,
                 posting, jobs, enq, disp, returned, cancelled, reqDone, tokens, netops,
                 poolq, aux>>

\* body "x = co_await child(); co_return x + 1;": the call child() builds
\* the task temporary
BodyCallChild(t, k, tk) ==
  LET f == cur[t] IN
  /\ Executing(t, f) /\ frame[f].pc = "body" /\ frame[f].kind \in AwaitKinds
  /\ nres + Need(k) - 1 <= NFrames
  /\ tk # 0 => k \in TokenKinds
  /\ frame' = [frame EXCEPT ![nalloc + 1] = [NewFrame(k, tk) EXCEPT !.sp = frame[f].sp],
                            ![f].tmp = nalloc + 1,
                            ![f].pc = "made", ![f].ran = TRUE]
  /\ nres' = nres + Need(k) - 1
  /\ nalloc' = nalloc + 1
  /\ UNCHANGED <<slot, q, stop_requested, running_, loop, cur, posting, jobs,
                 enq, disp, returned, cancelled, reqDone, tokens, netops, poolq, aux>>

\* an await_ready that always asks for suspension
AwaitReadyNever(fr, h) == FALSE

\* task_awaiter::await_ready
AwaitReady(fr, h) == h = 0 \/ Done(fr, h)

\* an await_suspend that posts the awaited coroutine to the scheduler
\* instead of transferring into it
TaskAwaitSuspendPosted(t, f, c) ==
  /\ frame' = [frame EXCEPT ![c].cont = f,
                            ![f].pc = "aw_task",
                            ![f].adisp = Len(disp),
                            ![f].ajobs = Len(jobs),
                            ![f].ext = FALSE]
  /\ InlinePost("resume", c)
  /\ Leave(t)

\* task_awaiter::await_suspend: continuation = awaiting; return h
\* (symmetric transfer into the awaited coroutine)
TaskAwaitSuspend(t, f, c) ==
  /\ frame' = [frame EXCEPT ![c].cont = f,
                            ![c].pc = ResumePc(@),
                            ![c].res = @ \cup {<<t, "await">>},
                            ![f].pc = "aw_task",
                            ![f].adisp = Len(disp),
                            ![f].ajobs = Len(jobs),
                            ![f].ext = FALSE]
  /\ cur' = [cur EXCEPT ![t] = c]
  /\ UNCHANGED <<q, jobs, enq, returned, loop>>

\* co_await on the task temporary
TaskAwait(t) ==
  LET f == cur[t] IN
  /\ Executing(t, f) /\ frame[f].pc = "made"
  /\ IF AwaitReady(frame, frame[f].tmp)
       THEN /\ frame' = [frame EXCEPT ![f].pc = "res_task"]
            /\ UNCHANGED <<q, jobs, enq, returned, loop, cur>>
       ELSE TaskAwaitSuspend(t, f, frame[f].tmp)
  /\ UNCHANGED <<nalloc, nres, slot, stop_requested, running_, posting, disp,
                 cancelled, reqDone, tokens, netops, poolq, aux>>

\* an await_resume that hands out a value-initialised T
AwaitResumeValueDefault(p) == 0

\* task_awaiter::await_resume, the value branch: std::move(*p.value)
AwaitResumeValue(p) == p.val

\* task_awaiter::await_resume followed by the rest of the awaiting body;
\* the task temporary dies at the end of the full expression, or during
\* unwinding when await_resume rethrows
TaskAwaitResume(t) ==
  LET f == cur[t]
      c == frame[f].tmp
      p == frame[c]
      gone == [TaskDestroy(frame, c) EXCEPT ![f].tmp = 0]
  IN
  /\ Executing(t, f) /\ frame[f].pc = "res_task" /\ frame[f].kind \in AwaitKinds
  /\ frame' = IF p.exc # "none"
                THEN IF frame[f].kind = "awaitc"
                       THEN ReturnValue(gone, f, 0)
                       ELSE UnhandledException(gone, f, p.exc)
                ELSE ReturnValue(gone, f, AwaitResumeValue(p) + 1)
  /\ UNCHANGED <<nalloc, nres, slot, q, stop_requested, running_, loop, cur,
                 posting, jobs, enq, disp, returned, cancelled, reqDone, tokens, netops,
                 poolq, aux>>

\* body "int x = co_await t; co_return x + 1;" where t is a task value
\* of user code (slot s), possibly empty: operator co_await() & copies
\* h_ into the awaiter, then await_ready and, if not ready, await_suspend
AwaitHeld(t, s) ==
  LET f == cur[t]
      h == slot[s]
  IN
  /\ Executing(t, f) /\ frame[f].pc = "body" /\ frame[f].kind = "awaitu"
  /\ h # NoTask /\ h # f
  /\ h # 0 => frame[h].kind \in {"ret", "throw"}
  /\ IF AwaitReady(frame, h)
       THEN /\ frame' = [frame EXCEPT ![f].pc = "res_task", ![f].uw = h,
                                      ![f].ran = TRUE]
            /\ UNCHANGED <<q, jobs, enq, returned, loop, cur>>
       ELSE /\ frame' = [frame EXCEPT ![h].cont = f,
                                      ![h].pc = ResumePc(@),
                                      ![h].res = @ \cup {<<t, "await">>},
                                      ![f].pc = "aw_task", ![f].uw = h,
                                      ![f].ran = TRUE]
            /\ cur' = [cur EXCEPT ![t] = h]
            /\ UNCHANGED <<q, jobs, enq, returned, loop>>
  /\ UNCHANGED <<nalloc, nres, slot, stop_requested, running_, posting, disp,
                 cancelled, reqDone, tokens, netops, poolq, aux>>

\* task_awaiter::await_resume on the awaiter of a user's task, then the
\* rest of the body. With a null handle h.promise() is undefined
\* behaviour: the process dies, or whatever lies there is read as the
\* exception pointer and the value.
AwaitHeldResume(t) ==
  LET f == cur[t]
      h == frame[f].uw
  IN
  /\ Executing(t, f) /\ frame[f].pc = "res_task" /\ frame[f].kind = "awaitu"
  /\ IF h = 0
       THEN \E out \in {"dies", "value", "throws"} :
              LET fr == [frame EXCEPT ![f].nullp = TRUE] IN
              CASE out = "dies" ->
                     /\ frame' = fr
                     /\ cur' = [cur EXCEPT ![t] = 0]
                     /\ loop' = [pc |-> "crashed", job |-> 0]
                [] out = "value" ->
                     /\ frame' = ReturnValue(fr, f, 0)
                     /\ UNCHANGED <<cur, loop>>
                [] OTHER ->
                     /\ frame' = UnhandledException(fr, f, "garbage")
                     /\ UNCHANGED <<cur, loop>>
       ELSE /\ frame' = IF frame[h].exc # "none"
                          THEN UnhandledException(frame, f, frame[h].exc)
                          ELSE ReturnValue(frame, f, AwaitResumeValue(frame[h]) + 1)
            /\ UNCHANGED <<cur, loop>>
  /\ UNCHANGED <<nalloc, nres, slot, q, stop_requested, running_, posting, jobs,
                 enq, disp, returned, cancelled, reqDone, tokens, netops, poolq,
                 aux>>

\* a final awaiter that looks at the detached flag before the continuation
FinalAwaiterSuspendDetachedFirst(t, f) ==
  IF frame[f].det
    THEN /\ frame' = Destroy(frame, f, "self")
         /\ Leave(t)
    ELSE IF frame[f].cont # 0
      THEN /\ frame' = [frame EXCEPT ![f].pc = "done",
                                     ![frame[f].cont].pc = ResumePc(@),
                                     ![frame[f].cont].res = @ \cup {<<t, "cont">>}]
           /\ cur' = [cur EXCEPT ![t] = frame[f].cont]
           /\ UNCHANGED loop
      ELSE /\ frame' = [frame EXCEPT ![f].pc = "done"]
           /\ Leave(t)

\* promise_common::final_awaiter::await_suspend
FinalAwaiterSuspend(t, f) ==
  IF frame[f].cont # 0
    THEN /\ frame' = [frame EXCEPT ![f].pc = "done",
                                   ![frame[f].cont].pc = ResumePc(@),
                                   ![frame[f].cont].res = @ \cup {<<t, "cont">>}]
         /\ cur' = [cur EXCEPT ![t] = frame[f].cont]
         /\ UNCHANGED loop
    ELSE IF frame[f].det
      THEN /\ frame' = Destroy(frame, f, "self")
           /\ Leave(t)
      ELSE /\ frame' = [frame EXCEPT ![f].pc = "done"]
           /\ Leave(t)

FinalSuspend(t) ==
  LET f == cur[t] IN
  /\ Executing(t, f) /\ frame[f].pc = "fin"
  /\ FinalAwaiterSuspend(t, f)
  /\ UNCHANGED <<nalloc, nres, slot, q, stop_requested, running_, posting, jobs,
                 enq, disp, returned, cancelled, reqDone, tokens, netops, poolq, aux>>

\* ------------------------------------------------------------ spawn_detached
\* calling make_detached(std::move(t)): the detached coroutine's frame, with
\* the task t moved into it as its parameter; initial_suspend is
\* suspend_always
NewDetached(fr, d, u) ==
  [g \in Frames |->
     IF g = d THEN [NewFrame("spawn", 0) EXCEPT !.tmp = u, !.sp = d]
     ELSE IF g \in Owned(fr, u) THEN [fr[g] EXCEPT !.sp = d]
     ELSE fr[g]]

\* spawn_detached(ctx, std::move(t)), up to the end of the critical section
\* of ctx.post(dt.h); the caller's task is left empty, and ~detached_task
\* does not touch the frame
USpawn(s) ==
  /\ UserIdle
  /\ slot[s] \in Frames
  /\ frame[slot[s]].pc = "init" /\ ~frame[slot[s]].rawp /\ ~frame[slot[s]].det
  /\ nres + 1 <= NFrames
  /\ frame' = NewDetached(frame, nalloc + 1, slot[s])
  /\ nalloc' = nalloc + 1
  /\ nres' = nres + 1
  /\ slot' = [slot EXCEPT ![s] = 0]
  /\ PostBegin("user", "resume", nalloc + 1, "spawn", s)
  /\ UNCHANGED <<stop_requested, running_, loop, cur, disp, returned,
                 cancelled, reqDone, tokens, netops, poolq, aux>>

\* make_detached body "co_await t;": task_awaiter on the parameter
DetachedAwait(t) ==
  LET f == cur[t] IN
  /\ Executing(t, f) /\ frame[f].pc = "body" /\ frame[f].kind = "spawn"
  /\ IF AwaitReady(frame, frame[f].tmp)
       THEN /\ frame' = [frame EXCEPT ![f].pc = "res_task"]
            /\ UNCHANGED <<q, jobs, enq, returned, loop, cur>>
       ELSE TaskAwaitSuspend(t, f, frame[f].tmp)
  /\ UNCHANGED <<nalloc, nres, slot, stop_requested, running_, posting, disp,
                 cancelled, reqDone, tokens, netops, poolq, aux>>

\* detached_task::promise_type::return_void, then final_suspend
DetachedReturnVoid(fr, f) == [fr EXCEPT ![f].pc = "dfin", ![f].ran = TRUE]

\* an unhandled_exception that rethrows: the failure leaves resume()
DetachedUnhandledExceptionRethrow(fr, f, e) ==
  [fr EXCEPT ![f].pc = "escaped", ![f].exc = e, ![f].ran = TRUE]

\* detached_task::promise_type::unhandled_exception (empty body), then
\* final_suspend
DetachedUnhandledException(fr, f, e) == [fr EXCEPT ![f].pc = "dfin", ![f].ran = TRUE]

\* task_awaiter::await_resume inside make_detached (rethrows t's failure),
\* then "co_return;"
DetachedAwaitResume(t) ==
  LET f == cur[t]
      p == frame[frame[f].tmp]
  IN
  /\ Executing(t, f) /\ frame[f].pc = "res_task" /\ frame[f].kind = "spawn"
  /\ frame' = IF p.exc # "none" THEN DetachedUnhandledException(frame, f, p.exc)
                                ELSE DetachedReturnVoid(frame, f)
  /\ UNCHANGED <<nalloc, nres, slot, q, stop_requested, running_, loop, cur,
                 posting, jobs, enq, disp, returned, cancelled, reqDone, tokens, netops,
                 poolq, aux>>

\* a final awaiter that leaves the detached frame suspended
DetachedFinalAwaiterSuspendPark(t, f) ==
  /\ frame' = [frame EXCEPT ![f].pc = "done"]
  /\ Leave(t)

\* detached_task::promise_type::final_awaiter::await_suspend: h.destroy()
DetachedFinalAwaiterSuspend(t, f) ==
  /\ frame' = Destroy(frame, f, "self")
  /\ Leave(t)

DetachedFinal(t) ==
  LET f == cur[t] IN
  /\ Executing(t, f) /\ frame[f].pc = "dfin"
  /\ DetachedFinalAwaiterSuspend(t, f)
  /\ UNCHANGED <<nalloc, nres, slot, q, stop_requested, running_, posting, jobs,
                 enq, disp, returned, cancelled, reqDone, tokens, netops, poolq, aux>>

\* a schedule awaitable that resumes the coroutine on the spot whether
\* it has a scheduler or not
ScheduleAwaitSuspendInline(t, f) ==
  /\ frame' = [frame EXCEPT ![f].pc = "res_sched", ![f].ran = TRUE,
                            ![f].res = @ \cup {<<t, "inline">>}]
  /\ UNCHANGED <<q, jobs, enq, returned, loop, cur>>

\* scheduler::schedule_awaitable::await_suspend: with a null scheduler
\* (body kind "yield0") h.resume() on the spot; else s->post(h)
ScheduleAwaitSuspend(t, f) ==
  IF frame[f].kind = "yield0"
    THEN /\ frame' = [frame EXCEPT ![f].pc = "res_sched", ![f].ran = TRUE,
                                   ![f].res = @ \cup {<<t, "inline">>}]
         /\ UNCHANGED <<q, jobs, enq, returned, loop, cur>>
    ELSE /\ InlinePost("resume", f)
         /\ frame' = [MarkExt(frame, f) EXCEPT ![f].pc = "aw_sched", ![f].ran = TRUE]
         /\ Leave(t)

\* body "co_await sched.schedule(); co_return 41;" ("yield"), and the
\* same with "co_await scheduler::schedule_awaitable{};" ("yield0")
BodySchedule(t) ==
  LET f == cur[t] IN
  /\ Executing(t, f) /\ frame[f].pc = "body" /\ frame[f].kind \in {"yield", "yield0"}
  /\ ScheduleAwaitSuspend(t, f)
  /\ UNCHANGED <<nalloc, nres, slot, stop_requested, running_, posting, disp,
                 cancelled, reqDone, tokens, netops, poolq, aux>>

\* schedule_awaitable::await_resume, then co_return
ScheduleResume(t) ==
  LET f == cur[t] IN
  /\ Executing(t, f) /\ frame[f].pc = "res_sched"
  /\ frame' = ReturnValue(frame, f, 41)
  /\ UNCHANGED <<nalloc, nres, slot, q, stop_requested, running_, loop, cur,
                 posting, jobs, enq, disp, returned, cancelled, reqDone, tokens, netops,
                 poolq, aux>>

\* ------------------------------------------------------------ network
\* an await_suspend that hands the operation to the starter without
\* looking at the token
NetAwaitSuspendNoCheck(t, f) ==
  \/ /\ netops' = netops \cup {f}
     /\ frame' = [MarkExt(frame, f) EXCEPT ![f].pc = "aw_net", ![f].ran = TRUE,
                                          ![f].nstart = @ + 1]
     /\ UNCHANGED <<q, jobs, enq, returned>>
  \/ /\ InlinePost("resume", f)
     /\ frame' = [MarkExt(frame, f) EXCEPT ![f].pc = "aw_net", ![f].ran = TRUE,
                                          ![f].aex = "starter",
                                          ![f].nstart = @ + 1]
     /\ UNCHANGED netops

\* asio_awaitable::await_suspend: token cancelled: post h and return;
\* else call the starter, which registers the operation with the reactor
\* or throws (ex = current_exception, post h); nstart counts the calls of
\* the starter, csus records that the token was found cancelled
NetAwaitSuspend(t, f) ==
  IF TokenIsCancelled(frame[f].tok)
    THEN /\ InlinePost("resume", f)
         /\ frame' = [MarkExt(frame, f) EXCEPT ![f].pc = "aw_net", ![f].ran = TRUE,
                                              ![f].csus = TRUE]
         /\ UNCHANGED netops
    ELSE \/ /\ netops' = netops \cup {f}
            /\ frame' = [MarkExt(frame, f) EXCEPT ![f].pc = "aw_net", ![f].ran = TRUE,
                                                 ![f].nstart = @ + 1]
            /\ UNCHANGED <<q, jobs, enq, returned>>
         \/ /\ InlinePost("resume", f)
            /\ frame' = [MarkExt(frame, f) EXCEPT ![f].pc = "aw_net", ![f].ran = TRUE,
                                                 ![f].aex = "starter",
                                                 ![f].nstart = @ + 1]
            /\ UNCHANGED netops

\* body "co_return co_await asio_awaitable{ctx, ct, starter};"
BodyNet(t) ==
  LET f == cur[t] IN
  /\ Executing(t, f) /\ frame[f].pc = "body" /\ frame[f].kind = "net"
  /\ NetAwaitSuspend(t, f)
  /\ Leave(t)
  /\ UNCHANGED <<nalloc, nres, slot, stop_requested, running_, posting, disp,
                 cancelled, reqDone, tokens, poolq, aux>>

\* what a starter can do with the completion callback it is handed:
\* register it with the reactor and return, throw before using it,
\* invoke it before returning, invoke it and then throw, register it and
\* then throw
StarterKinds == {"registers", "throws", "calls", "calls_throws", "registers_throws"}

\* the completion callback run inside the starter, on the thread that
\* called await_suspend: result stored, h posted
StarterCallback(fr, f, ec) ==
  [fr EXCEPT ![f].aec = ec, ![f].aval = IF ec = "ok" THEN 5 ELSE @]

\* asio_awaitable::await_suspend with a starter of kind sk: token
\* cancelled: post h and return; else call the starter inside the try
\* block; whatever the starter did with the callback, a throw takes the
\* catch branch: ex = current_exception, post h
NetAwaitSuspendStarter(t, f, sk) ==
  LET susp(fr) == [MarkExt(fr, f) EXCEPT ![f].pc = "aw_net", ![f].ran = TRUE]
      started(fr) == [susp(fr) EXCEPT ![f].nstart = @ + 1]
      caught(fr) == [started(fr) EXCEPT ![f].aex = "starter"]
      job == NewJob("resume", f, "await")
  IN
  IF TokenIsCancelled(frame[f].tok)
    THEN /\ sk = "registers"
         /\ InlinePost("resume", f)
         /\ frame' = [susp(frame) EXCEPT ![f].csus = TRUE]
         /\ UNCHANGED netops
    ELSE CASE sk = "registers" ->
                /\ netops' = netops \cup {f}
                /\ frame' = started(frame)
                /\ UNCHANGED <<q, jobs, enq, returned>>
           [] sk = "throws" ->
                /\ InlinePost("resume", f)
                /\ frame' = caught(frame)
                /\ UNCHANGED netops
           [] sk = "calls" ->
                /\ InlinePost("resume", f)
                /\ \E ec \in {"ok", "err"} :
                     frame' = StarterCallback(started(frame), f, ec)
                /\ UNCHANGED netops
           [] sk = "calls_throws" ->
                /\ Len(jobs) + 2 <= MaxJobs
                /\ jobs' = jobs \o <<job, job>>
                /\ q' = SchedEnqueue(SchedEnqueue(q, Len(jobs) + 1), Len(jobs) + 2)
                /\ enq' = enq \o <<Len(jobs) + 1, Len(jobs) + 2>>
                /\ returned' = returned \cup {Len(jobs) + 1, Len(jobs) + 2}
                /\ \E ec \in {"ok", "err"} :
                     frame' = StarterCallback(caught(frame), f, ec)
                /\ UNCHANGED netops
           [] sk = "registers_throws" ->
                /\ InlinePost("resume", f)
                /\ netops' = netops \cup {f}
                /\ frame' = caught(frame)

\* body "co_return co_await asio_awaitable{ctx, ct, starter};" with a
\* starter of kind sk
BodyNetStarter(t, sk) ==
  LET f == cur[t] IN
  /\ Executing(t, f) /\ frame[f].pc = "body" /\ frame[f].kind = "net"
  /\ NetAwaitSuspendStarter(t, f, sk)
  /\ Leave(t)
  /\ UNCHANGED <<nalloc, nres, slot, stop_requested, running_, posting, disp,
                 cancelled, reqDone, tokens, poolq, aux>>

\* to_system_error: the std::system_error that carries error code ec
ToSystemError(ec) == IF ec = "eof" THEN "sys_eof" ELSE "sys"

\* an await_resume that looks at the reactor's error code before the
\* failure captured from the starter
NetAwaitResumeCodeFirst(fr, f) ==
  IF TokenIsCancelled(fr[f].tok) THEN UnhandledException(fr, f, "canceled")
  ELSE IF fr[f].aec # "ok" THEN UnhandledException(fr, f, ToSystemError(fr[f].aec))
  ELSE IF fr[f].aex # "none" THEN UnhandledException(fr, f, fr[f].aex)
  ELSE ReturnValue(fr, f, fr[f].aval)

\* asio_awaitable::await_resume: canceled, captured failure, reactor error, value
NetAwaitResume(fr, f) ==
  IF TokenIsCancelled(fr[f].tok) THEN UnhandledException(fr, f, "canceled")
  ELSE IF fr[f].aex # "none" THEN UnhandledException(fr, f, fr[f].aex)
  ELSE IF fr[f].aec # "ok" THEN UnhandledException(fr, f, ToSystemError(fr[f].aec))
  ELSE ReturnValue(fr, f, fr[f].aval)

NetResume(t) ==
  LET f == cur[t] IN
  /\ Executing(t, f) /\ frame[f].pc = "res_net"
  /\ frame' = NetAwaitResume(frame, f)
  /\ UNCHANGED <<nalloc, nres, slot, q, stop_requested, running_, loop, cur,
                 posting, jobs, enq, disp, returned, cancelled, reqDone, tokens, netops,
                 poolq, aux>>

\* a completion callback that resumes the awaiting coroutine itself
NetCallbackInline(f, ec) ==
  /\ frame' = [frame EXCEPT ![f].aec = ec,
                            ![f].aval = IF ec = "ok" THEN 5 ELSE @,
                            ![f].pc = ResumePc(@),
                            ![f].res = @ \cup {<<"net", "callback">>}]
  /\ cur' = [cur EXCEPT !["net"] = f]
  /\ UNCHANGED <<q, jobs, enq, posting>>

\* a completion callback that goes on to post without storing the result
NetCallbackNoStore(f, ec) ==
  /\ frame' = frame
  /\ posting' = [posting EXCEPT !["net"] =
                   [ph |-> "ran", id |-> 0, op |-> "net", arg |-> f]]
  /\ UNCHANGED <<cur, q, jobs, enq>>

\* the completion callback handed to the starter, run by the net thread,
\* up to its last statement: res.ec = ec; value emplaced when ec is ok
NetCallback(f, ec) ==
  /\ frame' = [frame EXCEPT ![f].aec = ec,
                            ![f].aval = IF ec = "ok" THEN 5 ELSE @,
                            ![f].stale = @ \/ frame[f].st # "live"]
  /\ posting' = [posting EXCEPT !["net"] =
                   [ph |-> "ran", id |-> 0, op |-> "net", arg |-> f]]
  /\ UNCHANGED <<cur, q, jobs, enq>>

\* the callback's last statement: ctx->post([h]{ if (h) h.resume(); })
NetCallbackPost ==
  /\ posting["net"].ph = "ran"
  /\ PostBegin("net", "resume", posting["net"].arg, "net", 0)
  /\ UNCHANGED <<frame, nalloc, nres, slot, stop_requested, running_, loop, cur,
                 disp, returned, cancelled, reqDone, tokens, netops, poolq, aux>>

\* the reactor completes a started operation
NetComplete(f, ec) ==
  /\ posting["net"].ph = "idle" /\ cur["net"] = 0
  /\ f \in netops
  /\ netops' = netops \ {f}
  /\ NetCallback(f, ec)
  /\ UNCHANGED <<nalloc, nres, slot, stop_requested, running_, loop,
                 disp, returned, cancelled, reqDone, tokens, poolq, aux>>

\* ------------------------------------------------------------ pool
\* thread_pool::enqueue: push the wrapper on the pool queue
PoolEnqueue(pq, f) == Append(pq, f)

\* thread_pool::submit awaitable::await_suspend
PoolAwaitSuspend(t, f) ==
  /\ poolq' = PoolEnqueue(poolq, f)
  /\ frame' = [MarkExt(frame, f) EXCEPT ![f].pc = "aw_pool", ![f].ran = TRUE]

\* body "co_return co_await awaitable{this, ct, fn};" of thread_pool::submit
BodyPool(t) ==
  LET f == cur[t] IN
  /\ Executing(t, f) /\ frame[f].pc = "body" /\ frame[f].kind = "pool"
  /\ PoolAwaitSuspend(t, f)
  /\ Leave(t)
  /\ UNCHANGED <<nalloc, nres, slot, q, stop_requested, running_, posting, jobs,
                 enq, disp, returned, cancelled, reqDone, tokens, netops, aux>>

\* thread_pool::ctx_post: hand the awaiter's handle to the context's scheduler
PoolCtxPost(f) == PostBegin("worker", "resume", f, "pool", 0)

\* what the submitted closure returns when it returns
PoolFn(f) == 8 + f

\* a wrapper that calls the closure without looking at the token
PoolWrapperNoCheck(f, out) ==
  /\ frame' = IF out = "throws"
                THEN [frame EXCEPT ![f].aex = "boom", ![f].fnruns = @ + 1,
                                   ![f].fnby = @ \cup {"worker"},
                                   ![f].fnout = "throws"]
                ELSE [frame EXCEPT ![f].aval = PoolFn(f), ![f].fnruns = @ + 1,
                                   ![f].fnby = @ \cup {"worker"},
                                   ![f].fnout = "returns"]
  /\ posting' = [posting EXCEPT !["worker"] =
                   [ph |-> "ran", id |-> 0, op |-> "pool", arg |-> f]]
  /\ UNCHANGED <<cur, q, jobs, enq>>

\* the wrapper closure built by await_suspend, run by a worker, up to its
\* last statement: token check, fn() (returns or throws), store / ex
PoolWrapper(f, out) ==
  /\ frame' = IF TokenIsCancelled(frame[f].tok)
                THEN [frame EXCEPT ![f].aex = "canceled",
                                   ![f].tsaw = Append(@, TRUE)]
                ELSE IF out = "throws"
                  THEN [frame EXCEPT ![f].aex = "boom", ![f].fnruns = @ + 1,
                                     ![f].fnby = @ \cup {"worker"},
                                     ![f].fnout = "throws",
                                     ![f].tsaw = Append(@, FALSE)]
                  ELSE [frame EXCEPT ![f].aval = PoolFn(f), ![f].fnruns = @ + 1,
                                     ![f].fnby = @ \cup {"worker"},
                                     ![f].fnout = "returns",
                                     ![f].tsaw = Append(@, FALSE)]
  /\ posting' = [posting EXCEPT !["worker"] =
                   [ph |-> "ran", id |-> 0, op |-> "pool", arg |-> f]]
  /\ UNCHANGED <<cur, q, jobs, enq>>

\* thread_pool::worker_loop: pop the next closure and run it
PoolWorkerLoop(out) ==
  /\ posting["worker"].ph = "idle" /\ cur["worker"] = 0
  /\ poolq # <<>>
  /\ poolq' = Tail(poolq)
  /\ PoolWrapper(Head(poolq), out)
  /\ UNCHANGED <<nalloc, nres, slot, stop_requested, running_, loop, disp,
                 returned, cancelled, reqDone, tokens, netops, aux>>

\* a wrapper that ends by resuming the awaiting coroutine on the worker
PoolWrapperPostInline(f) ==
  /\ frame' = [frame EXCEPT ![f].pc = ResumePc(@),
                            ![f].res = @ \cup {<<"worker", "callback">>}]
  /\ cur' = [cur EXCEPT !["worker"] = f]
  /\ posting' = [posting EXCEPT !["worker"] = IdlePost]
  /\ UNCHANGED <<q, jobs, enq>>

\* the wrapper's last statement: pool->ctx_post(h)
PoolWrapperPost(f) ==
  /\ PoolCtxPost(f)
  /\ UNCHANGED <<frame, cur>>

\* the worker reaches the end of the closure it is running
PoolWorkerPost ==
  /\ posting["worker"].ph = "ran"
  /\ PoolWrapperPost(posting["worker"].arg)
  /\ UNCHANGED <<nalloc, nres, slot, stop_requested, running_, loop, disp,
                 returned, cancelled, reqDone, tokens, netops, poolq, aux>>

\* an await_resume that returns the stored value whatever the worker caught
\* a closure whose outcome never reaches the awaitable: nothing is
\* stored before the handle is posted
PoolStoreLost(fr, f, out) ==
  [fr EXCEPT ![f].fnruns = @ + 1, ![f].fnby = @ \cup {"worker"},
             ![f].fnout = out]

\* the wrapper past the token test: "R r = fn(); store.set(std::move(r));"
\* or "catch (...) { ex = std::current_exception(); }"
PoolStore(fr, f, out) ==
  IF out = "throws"
    THEN [fr EXCEPT ![f].aex = "boom", ![f].fnruns = @ + 1,
                    ![f].fnby = @ \cup {"worker"}, ![f].fnout = "throws"]
    ELSE [fr EXCEPT ![f].aval = PoolFn(f), ![f].fnruns = @ + 1,
                    ![f].fnby = @ \cup {"worker"}, ![f].fnout = "returns"]

\* thread_pool::worker_loop takes the next wrapper; the wrapper's first
\* statement reads the token: cancelled: the canceled failure is thrown
\* and captured; tsaw = what the awaitable's readings of the token gave
PoolWorkerCheck ==
  /\ posting["worker"].ph = "idle" /\ cur["worker"] = 0
  /\ poolq # <<>>
  /\ poolq' = Tail(poolq)
  /\ LET f == Head(poolq)
         c == TokenIsCancelled(frame[f].tok)
     IN /\ frame' = [frame EXCEPT ![f].tsaw = Append(@, c),
                                  ![f].aex = IF c THEN "canceled" ELSE @]
        /\ posting' = [posting EXCEPT !["worker"] =
                         [ph |-> IF c THEN "ran" ELSE "fn", id |-> 0,
                          op |-> "pool", arg |-> f]]
  /\ UNCHANGED <<nalloc, nres, slot, q, stop_requested, running_, loop, cur,
                 jobs, enq, disp, returned, cancelled, reqDone, tokens, netops, aux>>

\* the wrapper runs the closure and stores its outcome
PoolWorkerFn(out) ==
  /\ posting["worker"].ph = "fn"
  /\ frame' = PoolStore(frame, posting["worker"].arg, out)
  /\ posting' = [posting EXCEPT !["worker"].ph = "ran"]
  /\ UNCHANGED <<nalloc, nres, slot, q, stop_requested, running_, loop, cur,
                 jobs, enq, disp, returned, cancelled, reqDone, tokens, netops,
                 poolq, aux>>

\* an await_resume that reads the token again, as the network awaitable's
\* does
PoolAwaitResumeRecheck(fr, f) ==
  IF TokenIsCancelled(fr[f].tok)
    THEN [UnhandledException(fr, f, "canceled") EXCEPT ![f].tsaw = Append(@, TRUE)]
  ELSE IF fr[f].aex # "none" THEN UnhandledException(fr, f, fr[f].aex)
  ELSE ReturnValue(fr, f, fr[f].aval)

PoolAwaitResumeIgnoreEx(fr, f) == ReturnValue(fr, f, fr[f].aval)

\* thread_pool::submit awaitable::await_resume
PoolAwaitResume(fr, f) ==
  IF fr[f].aex # "none" THEN UnhandledException(fr, f, fr[f].aex)
  ELSE ReturnValue(fr, f, fr[f].aval)

PoolResume(t) ==
  LET f == cur[t] IN
  /\ Executing(t, f) /\ frame[f].pc = "res_pool"
  /\ frame' = PoolAwaitResume(frame, f)
  /\ UNCHANGED <<nalloc, nres, slot, q, stop_requested, running_, loop, cur,
                 posting, jobs, enq, disp, returned, cancelled, reqDone, tokens, netops,
                 poolq, aux>>

\* ------------------------------------------------------------ signal bridge
\* signals one coroutine may wait for / the capture thread may observe:
\* SIGINT and SIGTERM
SigNums == {2, 15}

\* history: what happened to capture number i, on which thread, for
\* which awaiter
SigEvent(e, i, t, h) == [ev |-> e, i |-> i, th |-> t, h |-> h]

\* signal_set::on_signal: registers the callback
SigOnSignal ==
  /\ UserIdle
  /\ ~sig.cb
  /\ sig' = [sig EXCEPT !.cb = TRUE]
  /\ UNCHANGED <<frame, nalloc, nres, slot, q, stop_requested, running_, loop,
                 cur, posting, jobs, enq, disp, returned, cancelled, reqDone,
                 tokens, netops, poolq, io, mtx>>

\* a capture thread that runs the callback itself before it posts
SigWorkerLoopInline(n) ==
  /\ posting["worker"].ph = "idle"
  /\ ~sig.abort
  /\ Len(sig.caught) < MaxSig
  /\ sig' = [sig EXCEPT !.caught = Append(@, n),
                        !.trace = IF sig.cb
                                    THEN Append(@, SigEvent("cb", Len(sig.caught) + 1,
                                                            "worker", 0))
                                    ELSE @]
  /\ PostBegin("worker", "sig", Len(sig.caught) + 1, "sig", 0)
  /\ UNCHANGED <<frame, nalloc, nres, slot, stop_requested, running_, loop,
                 cur, disp, returned, cancelled, reqDone, tokens, netops, poolq,
                 io, mtx>>

\* signal_set::worker_loop, one iteration: the synchronous wait returned
\* signal n; its delivery is posted onto the loop through ctx_post
SigWorkerLoop(n) ==
  /\ posting["worker"].ph = "idle"
  /\ ~sig.abort
  /\ Len(sig.caught) < MaxSig
  /\ sig' = [sig EXCEPT !.caught = Append(@, n)]
  /\ PostBegin("worker", "sig", Len(sig.caught) + 1, "sig", 0)
  /\ UNCHANGED <<frame, nalloc, nres, slot, stop_requested, running_, loop,
                 cur, disp, returned, cancelled, reqDone, tokens, netops, poolq,
                 io, mtx>>

\* the delivery job of capture i, first half: on_signal_(sig) if set
SigDeliverCallback ==
  /\ loop.pc = "job"
  /\ jobs[loop.job].kind = "sig"
  /\ sig' = [sig EXCEPT !.trace =
               IF sig.cb THEN Append(@, SigEvent("cb", jobs[loop.job].h, "loop", 0))
                         ELSE @]
  /\ jobs' = JobInvoked(jobs, loop.job)
  /\ loop' = [loop EXCEPT !.pc = "sigd"]
  /\ UNCHANGED <<frame, nalloc, nres, slot, q, stop_requested, running_, cur,
                 posting, enq, disp, returned, cancelled, reqDone, tokens,
                 netops, poolq, io, mtx>>

\* a delivery that wakes the waiter and leaves the signal in pending too
SigDeliverDispatchBoth ==
  /\ loop.pc = "sigd"
  /\ LET i == jobs[loop.job].h IN
       IF sig.waiters # {}
         THEN \E w \in sig.waiters :
                /\ sig' = [sig EXCEPT !.waiters = @ \ {w},
                                      !.pending = Append(@, i),
                                      !.trace = Append(@, SigEvent("wake", i, "loop", w))]
                /\ frame' = [frame EXCEPT ![w].aval = sig.caught[i],
                                          ![w].pc = ResumePc(@),
                                          ![w].res = @ \cup {<<"loop", "sig">>}]
                /\ cur' = [cur EXCEPT !["loop"] = w]
                /\ loop' = [loop EXCEPT !.pc = "coro"]
         ELSE /\ sig' = [sig EXCEPT !.pending = Append(@, i),
                                    !.trace = Append(@, SigEvent("pend", i, "loop", 0))]
              /\ loop' = [pc |-> "wait", job |-> 0]
              /\ UNCHANGED <<frame, cur>>
  /\ UNCHANGED <<nalloc, nres, slot, q, stop_requested, running_, posting, jobs,
                 enq, disp, returned, cancelled, reqDone, tokens, netops, poolq,
                 io, mtx>>

\* the delivery job, second half: resume the waiter with the signal
\* number if one is installed, else append the signal to pending
SigDeliverDispatch ==
  /\ loop.pc = "sigd"
  /\ LET i == jobs[loop.job].h IN
       IF sig.waiters # {}
         THEN \E w \in sig.waiters :
                /\ sig' = [sig EXCEPT !.waiters = @ \ {w},
                                      !.trace = Append(@, SigEvent("wake", i, "loop", w))]
                /\ frame' = [frame EXCEPT ![w].aval = sig.caught[i],
                                          ![w].pc = ResumePc(@),
                                          ![w].res = @ \cup {<<"loop", "sig">>}]
                /\ cur' = [cur EXCEPT !["loop"] = w]
                /\ loop' = [loop EXCEPT !.pc = "coro"]
         ELSE /\ sig' = [sig EXCEPT !.pending = Append(@, i),
                                    !.trace = Append(@, SigEvent("pend", i, "loop", 0))]
              /\ loop' = [pc |-> "wait", job |-> 0]
              /\ UNCHANGED <<frame, cur>>
  /\ UNCHANGED <<nalloc, nres, slot, q, stop_requested, running_, posting, jobs,
                 enq, disp, returned, cancelled, reqDone, tokens, netops, poolq,
                 io, mtx>>

\* an async_wait that reads the head of pending and leaves it there
SigKeepPending(p) == p

\* async_wait with a signal pending: the head is consumed
SigTakePending(p) == Tail(p)

\* body "int s = co_await ctx.signals().async_wait(); co_return s;":
\* the await. With a signal pending it completes at once; with none it
\* installs the awaiter as the waiter and suspends. A wait started while
\* another waiter is installed is undefined behaviour: the process
\* aborts on an assertion, or the waiter slot is overwritten.
SigAwait(t) ==
  LET f == cur[t] IN
  /\ Executing(t, f) /\ frame[f].pc = "body" /\ frame[f].kind = "sigw"
  /\ IF sig.pending # <<>>
       THEN /\ sig' = [sig EXCEPT !.pending = SigTakePending(@),
                                  !.trace = Append(@, SigEvent("ready", Head(sig.pending),
                                                               t, f))]
            /\ frame' = [frame EXCEPT ![f].aval = sig.caught[Head(sig.pending)],
                                      ![f].pc = "res_sig", ![f].ran = TRUE]
            /\ UNCHANGED <<cur, loop>>
       ELSE IF sig.waiters = {}
         THEN /\ sig' = [sig EXCEPT !.waiters = {f}]
              /\ frame' = [frame EXCEPT ![f].pc = "aw_sig", ![f].ran = TRUE]
              /\ Leave(t)
         ELSE \/ /\ sig' = [sig EXCEPT !.abort = TRUE]
                 /\ frame' = [frame EXCEPT ![f].ran = TRUE]
                 /\ cur' = [cur EXCEPT ![t] = 0]
                 /\ loop' = [pc |-> "crashed", job |-> 0]
              \/ /\ sig' = [sig EXCEPT !.waiters = {f}]
                 /\ frame' = [frame EXCEPT ![f].pc = "aw_sig", ![f].ran = TRUE]
                 /\ Leave(t)
  /\ UNCHANGED <<nalloc, nres, slot, q, stop_requested, running_, posting, jobs,
                 enq, disp, returned, cancelled, reqDone, tokens, netops, poolq,
                 io, mtx>>

\* the awaiter goes on with the signal number: co_return s
SigResume(t) ==
  LET f == cur[t] IN
  /\ Executing(t, f) /\ frame[f].pc = "res_sig"
  /\ frame' = ReturnValue(frame, f, frame[f].aval)
  /\ UNCHANGED <<nalloc, nres, slot, q, stop_requested, running_, loop, cur,
                 posting, jobs, enq, disp, returned, cancelled, reqDone, tokens,
                 netops, poolq, aux>>

\* ------------------------------------------------------------ runtime context
\* the two io_context classes of the repository
ContextClasses == {"vix", "cnerium"}

\* data members of io_context, in declaration order (the same in both
\* classes): the scheduler first, then the lazily built services
Members == <<"sched_", "cpu_pool_", "timer_", "signals_", "net_">>

Services == {"cpu_pool_", "timer_", "signals_", "net_"}

\* the body of vix's user-provided ~io_context(): the services are
\* reset in this order
DtorOrder == <<"cpu_pool_", "signals_", "net_", "timer_">>

\* io_context ctx;
IoConstruct(c) ==
  /\ io.phase = "none"
  /\ io' = [NoContext EXCEPT !.cls = c, !.phase = "alive", !.up = {"sched_"}]
  /\ UNCHANGED <<frame, nalloc, nres, slot, q, stop_requested, running_, loop,
                 cur, posting, jobs, enq, disp, returned, cancelled, reqDone,
                 tokens, netops, poolq, sig, mtx>>

\* ctx.cpu_pool() / timers() / signals() / net(): the service is built on
\* first use
IoGet(x) ==
  /\ io.phase = "alive"
  /\ x \notin io.built
  /\ io' = [io EXCEPT !.built = @ \cup {x}, !.up = @ \cup {x}]
  /\ UNCHANGED <<frame, nalloc, nres, slot, q, stop_requested, running_, loop,
                 cur, posting, jobs, enq, disp, returned, cancelled, reqDone,
                 tokens, netops, poolq, sig, mtx>>

\* a thread of service x posts a completion to the context's scheduler;
\* lost = the scheduler was already destroyed
IoServicePost(x) ==
  /\ x \in io.up \cap Services
  /\ io.posts < MaxCtxPosts
  /\ io' = [io EXCEPT !.posts = @ + 1,
                      !.lost = @ \/ "sched_" \notin io.up]
  /\ UNCHANGED <<frame, nalloc, nres, slot, q, stop_requested, running_, loop,
                 cur, posting, jobs, enq, disp, returned, cancelled, reqDone,
                 tokens, netops, poolq, sig, mtx>>

\* the context object dies: vix's destructor body runs first; cnerium's
\* class declares no destructor, so its members are destroyed at once
IoDestroy ==
  /\ io.phase = "alive"
  /\ io' = IF io.cls = "vix"
             THEN [io EXCEPT !.phase = "body", !.step = 1]
             ELSE [io EXCEPT !.phase = "members", !.step = Len(Members)]
  /\ UNCHANGED <<frame, nalloc, nres, slot, q, stop_requested, running_, loop,
                 cur, posting, jobs, enq, disp, returned, cancelled, reqDone,
                 tokens, netops, poolq, sig, mtx>>

\* tearing member m down: a service that was built is stopped, joined
\* and deleted; an empty unique_ptr has nothing to do
IoTearDown(c, m) ==
  IF m \in c.up THEN [c EXCEPT !.up = @ \ {m}, !.torn = Append(@, m)] ELSE c

\* one statement of vix's ~io_context(): the next service is reset
IoDtorBody ==
  /\ io.phase = "body"
  /\ io' = [IoTearDown(io, DtorOrder[io.step]) EXCEPT
              !.phase = IF io.step = Len(DtorOrder) THEN "members" ELSE "body",
              !.step = IF io.step = Len(DtorOrder) THEN Len(Members) ELSE io.step + 1]
  /\ UNCHANGED <<frame, nalloc, nres, slot, q, stop_requested, running_, loop,
                 cur, posting, jobs, enq, disp, returned, cancelled, reqDone,
                 tokens, netops, poolq, sig, mtx>>

\* implicit destruction of the data members, in reverse order of
\* declaration
IoDestroyMember ==
  /\ io.phase = "members"
  /\ io' = [IoTearDown(io, Members[io.step]) EXCEPT
              !.phase = IF io.step = 1 THEN "gone" ELSE "members",
              !.step = io.step - 1]
  /\ UNCHANGED <<frame, nalloc, nres, slot, q, stop_requested, running_, loop,
                 cur, posting, jobs, enq, disp, returned, cancelled, reqDone,
                 tokens, netops, poolq, sig, mtx>>

\* ------------------------------------------------------------ scheduler lock
\* what a callable posted to the scheduler does when run() invokes it:
\* nothing that touches the scheduler, or one call of post(fn), stop()
\* or pending() on the scheduler that runs it
LockJobKinds == {"fn", "post", "stop", "pending"}

LockCalls == {"post", "stop", "pending"}

\* post() calls of threads outside run(), finished or under way
OutsidePosts ==
  Cardinality({j \in 1..Len(jobs) : jobs[j].op = "post"})
  + Cardinality({u \in Threads \ {"loop"} :
                   mtx.op[u].f = "post" /\ mtx.op[u].ph \in {"want", "cs"}})

\* thread t enters post(fn) (fn of kind k), stop() or pending(): it is
\* about to lock m_. On the loop thread the caller is the job being run,
\* and what it posts is a plain callable.
LockCall(t, f, k) ==
  /\ mtx.op[t].ph = "idle"
  /\ IF t = "loop"
       THEN /\ loop.pc = "job" /\ jobs[loop.job].kind = f
            /\ k = IF f = "post" THEN "fn" ELSE "none"
       ELSE IF f = "post" THEN k \in LockJobKinds /\ OutsidePosts < MaxLockJobs
                          ELSE k = "none"
  /\ mtx' = [mtx EXCEPT !.op[t] = [f |-> f, ph |-> "want", k |-> k]]
  /\ UNCHANGED <<frame, nalloc, nres, slot, q, stop_requested, running_, loop,
                 cur, posting, jobs, enq, disp, returned, cancelled, reqDone,
                 tokens, netops, poolq, sig, io>>

\* std::lock_guard / std::unique_lock constructor: returns once m_ is free
LockAcquire(t) ==
  /\ mtx.op[t].ph = "want"
  /\ mtx.owner = "none"
  /\ mtx' = [mtx EXCEPT !.owner = t, !.hold = "call", !.op[t].ph = "cs"]
  /\ UNCHANGED <<frame, nalloc, nres, slot, q, stop_requested, running_, loop,
                 cur, posting, jobs, enq, disp, returned, cancelled, reqDone,
                 tokens, netops, poolq, sig, io>>

\* the critical section of post (q_.emplace_back), stop (stop_requested_
\* = true) or pending (q_.size()), and the end of the guard's scope
LockRelease(t) ==
  /\ mtx.op[t].ph = "cs"
  /\ mtx' = [mtx EXCEPT !.owner = "none", !.hold = "none",
                        !.op[t] = IF t = "loop" THEN [@ EXCEPT !.ph = "ret"]
                                                ELSE IdleCall,
                        !.seen = IF mtx.op[t].f = "pending" THEN Len(q) ELSE @]
  /\ IF mtx.op[t].f = "post"
       THEN /\ jobs' = Append(jobs, NewJob(mtx.op[t].k, 0,
                                           IF t = "loop" THEN "job" ELSE "post"))
            /\ q' = SchedEnqueue(q, Len(jobs) + 1)
            /\ enq' = Append(enq, Len(jobs) + 1)
            /\ returned' = returned \cup {Len(jobs) + 1}
            /\ UNCHANGED stop_requested
       ELSE /\ stop_requested' = (stop_requested \/ mtx.op[t].f = "stop")
            /\ jobs' = IF mtx.op[t].f = "stop" THEN MarkAtStop(jobs, q) ELSE jobs
            /\ UNCHANGED <<q, enq, returned>>
  /\ UNCHANGED <<frame, nalloc, nres, slot, running_, loop, cur, posting, disp,
                 cancelled, reqDone, tokens, netops, poolq, sig, io>>

\* scheduler::run: cv_.wait returns, m_ locked, once a job is queued or
\* stop was requested
LockRunAcquire ==
  /\ loop.pc = "wait"
  /\ mtx.owner = "none"
  /\ stop_requested \/ q # <<>>
  /\ mtx' = [mtx EXCEPT !.owner = "loop", !.hold = "run"]
  /\ loop' = [loop EXCEPT !.pc = "cs"]
  /\ UNCHANGED <<frame, nalloc, nres, slot, q, stop_requested, running_, cur,
                 posting, jobs, enq, disp, returned, cancelled, reqDone, tokens,
                 netops, poolq, sig, io>>

\* a run() whose lock lives until the end of the loop body: the job is
\* moved out of the queue and m_ stays locked while the job runs
LockRunReleaseLate ==
  /\ loop.pc = "cs"
  /\ IF q # <<>>
       THEN /\ loop' = [pc |-> "job", job |-> SchedFront(q)]
            /\ q' = SchedPop(q)
            /\ disp' = Append(disp, SchedFront(q))
            /\ UNCHANGED <<running_, mtx>>
       ELSE /\ loop' = [pc |-> "exited", job |-> 0]
            /\ running_' = FALSE
            /\ mtx' = [mtx EXCEPT !.owner = "none", !.hold = "none"]
            /\ UNCHANGED <<q, disp>>
  /\ UNCHANGED <<frame, nalloc, nres, slot, stop_requested, cur, posting, jobs,
                 enq, returned, cancelled, reqDone, tokens, netops, poolq, sig, io>>

\* scheduler::run, the locked block: the front job is moved out, or the
\* loop breaks (queue empty, stop requested); the block ends, m_ is
\* unlocked
LockRunRelease ==
  /\ loop.pc = "cs"
  /\ mtx' = [mtx EXCEPT !.owner = "none", !.hold = "none"]
  /\ IF q # <<>>
       THEN /\ loop' = [pc |-> "job", job |-> SchedFront(q)]
            /\ q' = SchedPop(q)
            /\ disp' = Append(disp, SchedFront(q))
            /\ UNCHANGED running_
       ELSE /\ loop' = [pc |-> "exited", job |-> 0]
            /\ running_' = FALSE
            /\ UNCHANGED <<q, disp>>
  /\ UNCHANGED <<frame, nalloc, nres, slot, stop_requested, cur, posting, jobs,
                 enq, returned, cancelled, reqDone, tokens, netops, poolq, sig, io>>

\* scheduler::run: j.fn() returns, the loop goes round; a callable that
\* calls the scheduler returns once that call has returned
LockJobReturn ==
  /\ loop.pc = "job"
  /\ jobs[loop.job].kind \in LockJobKinds
  /\ IF jobs[loop.job].kind = "fn" THEN mtx.op["loop"].ph = "idle"
                                   ELSE mtx.op["loop"].ph = "ret"
  /\ jobs' = JobInvoked(jobs, loop.job)
  /\ loop' = [pc |-> "wait", job |-> 0]
  /\ mtx' = [mtx EXCEPT !.op["loop"] = IdleCall]
  /\ UNCHANGED <<frame, nalloc, nres, slot, q, stop_requested, running_, cur,
                 posting, enq, disp, returned, cancelled, reqDone, tokens,
                 netops, poolq, sig, io>>

\* ------------------------------------------------------------ scheduler wakeup
\* post(fn) and stop() on a thread outside run(): the critical section
\* (q_.emplace_back, or stop_requested_ = true) and the end of the guard's
\* scope; the notify is still to come. wake = the jobs enqueued while
\* run() was blocked inside cv_.wait
WakeRelease(t) ==
  /\ t # "loop"
  /\ mtx.op[t].ph = "cs"
  /\ mtx.op[t].f \in {"post", "stop"}
  /\ mtx' = [mtx EXCEPT !.owner = "none", !.hold = "none",
                        !.op[t].ph = "notify",
                        !.wake = IF mtx.op[t].f = "post" /\ loop.pc = "sleep"
                                   THEN @ \cup {Len(jobs) + 1} ELSE @]
  /\ IF mtx.op[t].f = "post"
       THEN /\ jobs' = Append(jobs, NewJob(mtx.op[t].k, 0, "post"))
            /\ q' = SchedEnqueue(q, Len(jobs) + 1)
            /\ enq' = Append(enq, Len(jobs) + 1)
            /\ returned' = returned \cup {Len(jobs) + 1}
            /\ UNCHANGED stop_requested
       ELSE /\ stop_requested' = TRUE
            /\ jobs' = MarkAtStop(jobs, q)
            /\ UNCHANGED <<q, enq, returned>>
  /\ UNCHANGED <<frame, nalloc, nres, slot, running_, loop, cur, posting, disp,
                 cancelled, reqDone, tokens, netops, poolq, sig, io>>

\* cv_.notify_one() of post, cv_.notify_all() of stop: the thread blocked
\* in cv_.wait, if there is one, is woken; the call returns
WakeNotify(t) ==
  /\ mtx.op[t].ph = "notify"
  /\ mtx' = [mtx EXCEPT !.op[t] = IdleCall]
  /\ loop' = IF loop.pc = "sleep" THEN [loop EXCEPT !.pc = "woken"] ELSE loop
  /\ UNCHANGED <<frame, nalloc, nres, slot, q, stop_requested, running_, cur,
                 posting, jobs, enq, disp, returned, cancelled, reqDone, tokens,
                 netops, poolq, sig, io>>

\* std::condition_variable::wait may return without a notification
WakeSpurious ==
  /\ loop.pc = "sleep"
  /\ loop' = [loop EXCEPT !.pc = "woken"]
  /\ UNCHANGED <<frame, nalloc, nres, slot, q, stop_requested, running_, cur,
                 posting, jobs, enq, disp, returned, cancelled, reqDone, tokens,
                 netops, poolq, sig, io, mtx>>

\* scheduler::run: the unique_lock constructor at the top of the loop
\* body, and the re-locking of m_ by cv_.wait after a wakeup
WakeRunLock ==
  /\ loop.pc \in {"wait", "woken"}
  /\ mtx.owner = "none"
  /\ mtx' = [mtx EXCEPT !.owner = "loop", !.hold = "run"]
  /\ loop' = [loop EXCEPT !.pc = IF loop.pc = "wait" THEN "pred" ELSE "repred"]
  /\ UNCHANGED <<frame, nalloc, nres, slot, q, stop_requested, running_, cur,
                 posting, jobs, enq, disp, returned, cancelled, reqDone, tokens,
                 netops, poolq, sig, io>>

\* a run() that calls cv_.wait(lock) without a predicate: on entry it
\* blocks whatever the queue holds
WakeRunPredBare ==
  /\ loop.pc \in {"pred", "repred"}
  /\ IF loop.pc = "repred" /\ (stop_requested \/ q # <<>>)
       THEN /\ loop' = [loop EXCEPT !.pc = "cs"]
            /\ UNCHANGED mtx
       ELSE /\ loop' = [loop EXCEPT !.pc = "sleep"]
            /\ mtx' = [mtx EXCEPT !.owner = "none", !.hold = "none"]
  /\ UNCHANGED <<frame, nalloc, nres, slot, q, stop_requested, running_, cur,
                 posting, jobs, enq, disp, returned, cancelled, reqDone, tokens,
                 netops, poolq, sig, io>>

\* scheduler::run: cv_.wait(lock, pred) with m_ held: pred is evaluated;
\* true: wait returns with m_ locked; false: m_ is released and the thread
\* blocks, in one atomic step
WakeRunPred ==
  /\ loop.pc \in {"pred", "repred"}
  /\ IF stop_requested \/ q # <<>>
       THEN /\ loop' = [loop EXCEPT !.pc = "cs"]
            /\ UNCHANGED mtx
       ELSE /\ loop' = [loop EXCEPT !.pc = "sleep"]
            /\ mtx' = [mtx EXCEPT !.owner = "none", !.hold = "none"]
  /\ UNCHANGED <<frame, nalloc, nres, slot, q, stop_requested, running_, cur,
                 posting, jobs, enq, disp, returned, cancelled, reqDone, tokens,
                 netops, poolq, sig, io>>

\* ------------------------------------------------------------ systems
\* Task lifecycle: user code creates, moves, starts, posts and drops task
\* values while the loop thread runs the coroutines.
Next ==
  \/ \E s \in Slots, k \in TaskKinds : UCreate(s, k, 0)
  \/ \E a \in Slots, b \in Slots : UMoveConstruct(a, b)
  \/ \E a \in Slots, b \in Slots : UMoveAssign(a, b)
  \/ \E s \in Slots : UDrop(s)
  \/ \E s \in Slots : UStart(s)
  \/ \E s \in Slots : UPostHandle(s)
  \/ \E t \in PostThreads : PostReturn(t)
  \/ RunStart
  \/ RunDequeue
  \/ RunExecResume
  \/ RunExecStale
  \/ \E t \in Threads : BodyRet(t)
  \/ \E t \in Threads : BodyThrow(t)
  \/ \E t \in Threads, k \in TaskKinds : BodyCallChild(t, k, 0)
  \/ \E t \in Threads : TaskAwait(t)
  \/ \E t \in Threads : TaskAwaitResume(t)
  \/ \E t \in Threads : FinalSuspend(t)
  \/ \E t \in Threads : BodySchedule(t)
  \/ \E t \in Threads : ScheduleResume(t)

Spec == Init /\ [][Next]_vars

\* The scheduler alone: plain jobs posted from several threads, run, stop.
NextSched ==
  \/ \E t \in PostThreads : PostFn(t)
  \/ PostStopFn("user")
  \/ \E t \in PostThreads : PostReturn(t)
  \/ UStop
  \/ RunStart
  \/ RunDequeue
  \/ RunExit
  \/ RunExecFn
  \/ RunExecStop

SpecSched == Init /\ [][NextSched]_vars

\* The same system with the loop thread scheduled fairly: a thread inside
\* run() that can take its next step (dequeue, invoke, break) takes it.
\* cv_.wait(lock, pred) re-evaluates pred under the lock, and post() and
\* stop() notify after changing what pred reads.
FairSched ==
  /\ WF_vars(RunDequeue)
  /\ WF_vars(RunExit)
  /\ WF_vars(RunExecFn)
  /\ WF_vars(RunExecStop)

SpecSchedLive == Init /\ [][NextSched]_vars /\ FairSched

\* Await points served by other threads: started tasks awaiting network
\* operations, pool submissions, schedule() and each other, with
\* cancellation requested at any moment.
NextIo ==
  \/ \E s \in Slots, k \in IoKinds, tk \in 0..NCancel : UCreate(s, k, tk)
  \/ \E s \in Slots : UStart(s)
  \/ \E t \in PostThreads : PostReturn(t)
  \/ \E c \in CancelStates : RequestCancel(c)
  \/ RunStart
  \/ RunDequeue
  \/ RunExecResume
  \/ \E t \in Threads, k \in IoKinds, tk \in 0..NCancel : BodyCallChild(t, k, tk)
  \/ \E t \in Threads : TaskAwait(t)
  \/ \E t \in Threads : TaskAwaitResume(t)
  \/ \E t \in Threads : FinalSuspend(t)
  \/ \E t \in Threads : BodySchedule(t)
  \/ \E t \in Threads : ScheduleResume(t)
  \/ \E t \in Threads : BodyNet(t)
  \/ \E t \in Threads : NetResume(t)
  \/ \E f \in Frames, ec \in {"ok", "err"} : NetComplete(f, ec)
  \/ NetCallbackPost
  \/ \E t \in Threads : BodyPool(t)
  \/ \E out \in {"returns", "throws"} : PoolWorkerLoop(out)
  \/ PoolWorkerPost
  \/ \E t \in Threads : PoolResume(t)

SpecIo == Init /\ [][NextIo]_vars

\* await_resume of the network awaitable on its own: every state in which
\* the awaitable can be when the loop thread resumes the awaiter: the
\* token empty or bound, cancelled or not; the starter having thrown or
\* not; the completion callback not invoked, or invoked with the ok code
\* (value stored) or with a non-ok code. An awaiter whose starter did
\* not throw and whose callback was not invoked was resumed because its
\* token was cancelled when it suspended. Cancellation may still arrive
\* just before await_resume runs.
NetCodes == {"err", "eof"}

InitNetResume ==
  \E tk \in 0..NCancel, c0 \in BOOLEAN, sx \in {"none", "starter"},
     cb \in {"none", "ok"} \cup NetCodes :
    LET early == sx = "none" /\ cb = "none"
        aw == [NewFrame("net", tk) EXCEPT
                 !.pc = "res_net", !.det = TRUE, !.ran = TRUE, !.ext = TRUE,
                 !.res = {<<"loop", "job">>},
                 !.aex = sx,
                 !.aec = IF cb \in NetCodes THEN cb ELSE "ok",
                 !.aval = IF cb = "ok" THEN 5 ELSE NoVal,
                 !.nstart = IF early THEN 0 ELSE 1,
                 !.csus = early]
        job(o) == [kind |-> "resume", h |-> 1, op |-> o, before |-> {},
                   runs |-> 1, atstop |-> FALSE, late |-> FALSE]
    IN
    /\ early => (tk # 0 /\ c0)
    /\ frame = [f \in Frames |-> IF f = 1 THEN aw ELSE NoFrame]
    /\ nalloc = 1
    /\ nres = 1
    /\ slot = [s \in Slots |-> IF s = 1 THEN 0 ELSE NoTask]
    /\ q = <<>>
    /\ stop_requested = FALSE
    /\ running_ = TRUE
    /\ loop = [pc |-> "coro", job |-> 2]
    /\ cur = [u \in Threads |-> IF u = "loop" THEN 1 ELSE 0]
    /\ posting = [u \in PostThreads |-> IdlePost]
    /\ jobs = <<job("start"), job(IF cb = "none" THEN "await" ELSE "net")>>
    /\ enq = <<1, 2>>
    /\ disp = <<1, 2>>
    /\ returned = {1, 2}
    /\ cancelled = [c \in CancelStates |-> c0]
    /\ reqDone = [c \in CancelStates |-> IF c0 THEN 1 ELSE 0]
    /\ tokens = [k \in TokenIds |-> NoToken]
    /\ netops = {}
    /\ poolq = <<>>
    /\ sig = NoSignals
    /\ io = NoContext
    /\ mtx = MutexFree

NextNetResume ==
  \/ \E c \in CancelStates : RequestCancel(c)
  \/ \E t \in Threads : NetResume(t)
  \/ \E t \in Threads : FinalSuspend(t)

SpecNetResume == InitNetResume /\ [][NextNetResume]_vars

\* Network awaits with every kind of starter: detached coroutines that
\* await one network operation each, the reactor's thread completing the
\* registered ones, cancellation arriving at any time.
NextStarter ==
  \/ \E s \in Slots, tk \in 0..NCancel : UCreate(s, "net", tk)
  \/ \E s \in Slots : UStart(s)
  \/ \E t \in PostThreads : PostReturn(t)
  \/ \E c \in CancelStates : RequestCancel(c)
  \/ RunStart
  \/ RunDequeue
  \/ RunExecResume
  \/ RunExecStale
  \/ \E t \in Threads, sk \in StarterKinds : BodyNetStarter(t, sk)
  \/ \E t \in Threads : NetResume(t)
  \/ \E f \in Frames, ec \in {"ok", "err"} : NetComplete(f, ec)
  \/ NetCallbackPost
  \/ \E t \in Threads : FinalSuspend(t)

SpecStarter == Init /\ [][NextStarter]_vars

\* Pool submissions step by step: detached coroutines that await one
\* submission each, the worker reading the token, running the closure and
\* posting the handle as three steps, cancellation arriving in between.
NextPool ==
  \/ \E s \in Slots, tk \in 0..NCancel : UCreate(s, "pool", tk)
  \/ \E s \in Slots : UStart(s)
  \/ \E t \in PostThreads : PostReturn(t)
  \/ \E c \in CancelStates : RequestCancel(c)
  \/ RunStart
  \/ RunDequeue
  \/ RunExecResume
  \/ \E t \in Threads : BodyPool(t)
  \/ PoolWorkerCheck
  \/ \E out \in {"returns", "throws"} : PoolWorkerFn(out)
  \/ PoolWorkerPost
  \/ \E t \in Threads : PoolResume(t)
  \/ \E t \in Threads : FinalSuspend(t)

SpecPool == Init /\ [][NextPool]_vars

\* final_suspend on its own: every promise state a finished body can leave
\* behind (continuation set or not, detached or not, value or exception),
\* finishing on the loop thread or on a thread that resumed the handle by
\* hand (the smoke test's sync_await); then final_awaiter::await_suspend
\* runs and the owner may drop the task value.
InitFinal ==
  \E hasCont \in BOOLEAN, k1 \in AwaitKinds, d1 \in BOOLEAN,
     k2 \in {"ret", "throw", "yield"}, d2 \in BOOLEAN, t \in {"loop", "user"} :
    LET F == IF hasCont THEN 2 ELSE 1
        rootDet == IF hasCont THEN d1 ELSE d2
        awaiter == [NewFrame(k1, 0) EXCEPT !.pc = "aw_task", !.tmp = 2, !.det = d1,
                                           !.ran = TRUE, !.res = {<<t, "job">>},
                                           !.rawp = ~d1]
        done0 == [NewFrame(k2, 0) EXCEPT
                    !.cont = IF hasCont THEN 1 ELSE 0, !.det = d2,
                    !.res = {<<t, IF hasCont THEN "await" ELSE "job">>},
                    !.rawp = ~hasCont /\ ~d2]
        finished == IF k2 = "throw" THEN UnhandledException([g \in Frames |-> done0], F, "boom")[F]
                    ELSE ReturnValue([g \in Frames |-> done0], F, IF k2 = "ret" THEN 42 ELSE 41)[F]
    IN
    /\ hasCont \/ (k1 = "await" /\ ~d1)
    /\ frame = [f \in Frames |-> IF f = F THEN finished
                                 ELSE IF f = 1 THEN awaiter ELSE NoFrame]
    /\ nalloc = F
    /\ nres = F
    /\ slot = [s \in Slots |-> IF s = 1 THEN (IF rootDet THEN 0 ELSE 1) ELSE NoTask]
    /\ q = <<>>
    /\ stop_requested = FALSE
    /\ running_ = (t = "loop")
    /\ loop = IF t = "loop" THEN [pc |-> "coro", job |-> 1] ELSE [pc |-> "idle", job |-> 0]
    /\ cur = [u \in Threads |-> IF u = t THEN F ELSE 0]
    /\ posting = [u \in PostThreads |-> IdlePost]
    /\ jobs = IF t = "loop"
                THEN <<[kind |-> "resume", h |-> 1,
                        op |-> IF rootDet THEN "start" ELSE "post", before |-> {},
                        runs |-> 1, atstop |-> FALSE, late |-> FALSE]>>
                ELSE <<>>
    /\ enq = IF t = "loop" THEN <<1>> ELSE <<>>
    /\ disp = IF t = "loop" THEN <<1>> ELSE <<>>
    /\ returned = IF t = "loop" THEN {1} ELSE {}
    /\ cancelled = [c \in CancelStates |-> FALSE]
    /\ reqDone = [c \in CancelStates |-> 0]
    /\ tokens = [k \in TokenIds |-> NoToken]
    /\ netops = {}
    /\ poolq = <<>>
    /\ sig = NoSignals
    /\ io = NoContext
    /\ mtx = MutexFree

NextFinal ==
  \/ \E t \in Threads : FinalSuspend(t)
  \/ \E s \in Slots : UDrop(s)

SpecFinal == InitFinal /\ [][NextFinal]_vars

\* Detached work: tasks handed to spawn_detached or started with
\* start(scheduler), nothing left for user code to own or to await.
SpawnKinds == {"ret", "throw", "yield", "await"}

NextSpawn ==
  \/ \E s \in Slots, k \in SpawnKinds : UCreate(s, k, 0)
  \/ \E s \in Slots : USpawn(s)
  \/ \E s \in Slots : UStart(s)
  \/ \E s \in Slots : UDrop(s)
  \/ \E t \in PostThreads : PostReturn(t)
  \/ RunStart
  \/ RunDequeue
  \/ RunExecResume
  \/ \E t \in Threads : DetachedAwait(t)
  \/ \E t \in Threads : DetachedAwaitResume(t)
  \/ \E t \in Threads : DetachedFinal(t)
  \/ \E t \in Threads : BodyRet(t)
  \/ \E t \in Threads : BodyThrow(t)
  \/ \E t \in Threads, k \in {"ret", "throw", "yield"} : BodyCallChild(t, k, 0)
  \/ \E t \in Threads : TaskAwait(t)
  \/ \E t \in Threads : TaskAwaitResume(t)
  \/ \E t \in Threads : FinalSuspend(t)
  \/ \E t \in Threads : BodySchedule(t)
  \/ \E t \in Threads : ScheduleResume(t)

SpecSpawn == Init /\ [][NextSpawn]_vars

\* Cancellation alone: sources with their states, token objects made from
\* nothing, from a source or from another token, and requests to cancel.
NextCancel ==
  \/ \E k \in TokenIds : TokDefault(k)
  \/ \E k \in TokenIds, c \in CancelStates : TokFromSource(k, c)
  \/ \E j \in TokenIds, k \in TokenIds : TokCopy(j, k)
  \/ \E k \in TokenIds : TokDrop(k)
  \/ \E c \in CancelStates : RequestCancel(c)

SpecCancel == Init /\ [][NextCancel]_vars

\* The signal bridge: the capture thread observes signals while user code
\* registers the callback and starts coroutines that wait for a signal.
NextSignal ==
  \/ \E s \in Slots : UCreate(s, "sigw", 0)
  \/ \E s \in Slots : UStart(s)
  \/ \E t \in PostThreads : PostReturn(t)
  \/ SigOnSignal
  \/ \E n \in SigNums : SigWorkerLoop(n)
  \/ RunStart
  \/ RunDequeue
  \/ RunExecResume
  \/ SigDeliverCallback
  \/ SigDeliverDispatch
  \/ \E t \in Threads : SigAwait(t)
  \/ \E t \in Threads : SigResume(t)
  \/ \E t \in Threads : FinalSuspend(t)

SpecSignal == Init /\ [][NextSignal]_vars

\* ------------------------------------------------------------ properties
\* The runtime context: built by user code, its services built on first
\* use and posting from their threads, then destroyed.
NextContext ==
  \/ \E c \in ContextClasses : IoConstruct(c)
  \/ \E x \in Services : IoGet(x)
  \/ \E x \in Services : IoServicePost(x)
  \/ IoDestroy
  \/ IoDtorBody
  \/ IoDestroyMember

SpecContext == Init /\ [][NextContext]_vars

\* threads that call the scheduler's member functions
LockThreads == {"loop", "user", "net"}

\* The scheduler's mutex: the loop thread inside run(), its jobs calling
\* back into the scheduler, and other threads calling post, stop and
\* pending at any moment.
NextLock ==
  \/ RunStart
  \/ \E t \in LockThreads, f \in LockCalls, k \in LockJobKinds \cup {"none"} :
       LockCall(t, f, k)
  \/ \E t \in LockThreads : LockAcquire(t)
  \/ \E t \in LockThreads : LockRelease(t)
  \/ LockRunAcquire
  \/ LockRunRelease
  \/ LockJobReturn

\* the loop thread keeps going while it can; a thread inside a critical
\* section leaves it; the loop thread, blocked on m_ inside a job, gets
\* the mutex if it is free again and again
FairLock ==
  /\ WF_vars(LockRunAcquire)
  /\ WF_vars(LockRunRelease)
  /\ WF_vars(LockJobReturn)
  /\ WF_vars(\E f \in LockCalls, k \in LockJobKinds \cup {"none"} : LockCall("loop", f, k))
  /\ SF_vars(LockAcquire("loop"))
  /\ \A t \in LockThreads : WF_vars(LockRelease(t))

SpecLock == Init /\ [][NextLock]_vars /\ FairLock

\* threads that post to and stop a scheduler somebody else runs
WakeThreads == {"user", "net"}

\* The scheduler's condition variable: the loop thread inside run(),
\* locking, testing the predicate, blocking and being woken, while other
\* threads post plain callables and request the stop.
NextWake ==
  \/ RunStart
  \/ \E t \in WakeThreads : LockCall(t, "post", "fn")
  \/ \E t \in WakeThreads : LockCall(t, "stop", "none")
  \/ \E t \in WakeThreads : LockAcquire(t)
  \/ \E t \in WakeThreads : WakeRelease(t)
  \/ \E t \in WakeThreads : WakeNotify(t)
  \/ WakeSpurious
  \/ WakeRunLock
  \/ WakeRunPred
  \/ LockRunRelease
  \/ LockJobReturn

\* the loop thread keeps going while it can and gets m_ if it is free
\* again and again; a thread that holds m_ or has just released it goes
\* on to the end of its call. Nothing makes a thread call post or stop,
\* and nothing makes cv_.wait return spuriously.
FairWake ==
  /\ SF_vars(WakeRunLock)
  /\ WF_vars(WakeRunPred)
  /\ WF_vars(LockRunRelease)
  /\ WF_vars(LockJobReturn)
  /\ \A t \in WakeThreads : WF_vars(WakeRelease(t)) /\ WF_vars(WakeNotify(t))

SpecWake == Init /\ [][NextWake]_vars /\ FairWake

\* Yielding coroutines next to plain jobs posted from several threads.
NextYield ==
  \/ \E s \in Slots, k \in {"yield", "yield0"} : UCreate(s, k, 0)
  \/ \E s \in Slots : UStart(s)
  \/ \E s \in Slots : UPostHandle(s)
  \/ \E t \in PostThreads : PostFn(t)
  \/ \E t \in PostThreads : PostReturn(t)
  \/ RunStart
  \/ RunDequeue
  \/ RunExecResume
  \/ RunExecFn
  \/ \E t \in Threads : BodySchedule(t)
  \/ \E t \in Threads : ScheduleResume(t)
  \/ \E t \in Threads : FinalSuspend(t)

SpecYield == Init /\ [][NextYield]_vars

\* Coroutines that await task values held by user code: fresh ones, ones
\* already run to their end through a posted handle, and empty ones.
NextHeld ==
  \/ \E s \in Slots, k \in {"ret", "throw", "awaitu"} : UCreate(s, k, 0)
  \/ \E a \in Slots, b \in Slots : UMoveConstruct(a, b)
  \/ \E s \in Slots : UStart(s)
  \/ \E s \in Slots : UPostHandle(s)
  \/ \E t \in PostThreads : PostReturn(t)
  \/ RunStart
  \/ RunDequeue
  \/ RunExecResume
  \/ RunExecStale
  \/ \E t \in Threads : BodyRet(t)
  \/ \E t \in Threads : BodyThrow(t)
  \/ \E t \in Threads, s \in Slots : AwaitHeld(t, s)
  \/ \E t \in Threads : AwaitHeldResume(t)
  \/ \E t \in Threads : FinalSuspend(t)

SpecHeld == Init /\ [][NextHeld]_vars

Live(f) == frame[f].st = "live"

\* C1 (lazy start): a frame that was created and not yet resumed has run
\* none of its body, and a frame whose body has run was resumed first,
\* by an await (symmetric transfer) or by a job of the scheduler.
C1_LazyStart ==
  \A f \in Frames :
    Live(f) =>
      /\ (frame[f].pc = "init" => ~frame[f].ran /\ frame[f].res = {})
      /\ (frame[f].ran => frame[f].res # {})
      /\ frame[f].res \subseteq ({"loop"} \X {"await", "job", "cont"})

\* one coroutine still parked at its initial suspension point while
\* another one has been awaited and has run its body
C1_Witness ==
  \E f \in Frames, g \in Frames :
    /\ Live(f) /\ frame[f].pc = "init" /\ ~frame[f].ran
    /\ Live(g) /\ frame[g].ran /\ <<"loop", "await">> \in frame[g].res

C3_Fifo ==
  /\ Len(disp) <= Len(enq)
  /\ \A i \in 1..Len(disp) : disp[i] = enq[i]
  /\ q = SubSeq(enq, Len(disp) + 1, Len(enq))
  /\ \A i \in 1..Len(disp) :
       \A a \in jobs[disp[i]].before : \E k \in 1..(i - 1) : disp[k] = a

\* three jobs dispatched, the last posted after an earlier post had
\* returned, and one of them posted while another post was in progress
C3_Witness ==
  /\ Len(disp) = 3
  /\ jobs[disp[3]].before # {}
  /\ \E j \in 2..Len(jobs) : (j - 1) \notin jobs[j].before

C4_Captured ==
  \A f \in Frames :
    (Live(f) /\ frame[f].kind = "throw" /\ frame[f].pc \in {"fin", "done"})
      => frame[f].exc = "boom" /\ frame[f].val = NoVal

C4_Rethrown ==
  \A t \in Threads :
    LET f == cur[t] IN
    (f # 0 /\ Live(f) /\ frame[f].pc = "res_task"
       /\ frame[frame[f].tmp].exc # "none" /\ frame'[f] # frame[f])
      => /\ frame'[f].pc = "fin"
         /\ IF frame[f].kind = "awaitc"
              THEN frame'[f].exc = "none" /\ frame'[f].val = 0
              ELSE frame'[f].exc = frame[frame[f].tmp].exc /\ frame'[f].val = NoVal
         /\ frame'[frame[f].tmp].st = "dead"
         /\ frame'[frame[f].tmp].dcount = 1

C5_DestroyedOnce ==
  \A f \in Frames :
    /\ frame[f].dcount <= 1
    /\ frame[f].st = "dead" =>
         /\ frame[f].dcount = 1
         /\ frame[f].dby = IF frame[f].det THEN "self" ELSE "task"
    /\ Live(f) =>
         \/ frame[f].det
         \/ \E s \in Slots : slot[s] = f
         \/ \E g \in Frames : Live(g) /\ frame[g].tmp = f

\* one frame destroyed by itself after start, one by its owner's
\* destructor after a move, one temporary by the coroutine that awaited it
C5_Witness ==
  \E f \in Frames, g \in Frames, h \in Frames :
    /\ frame[f].st = "dead" /\ frame[f].dby = "self"
    /\ frame[g].st = "dead" /\ frame[g].dby = "task" /\ frame[g].rawp
    /\ frame[h].st = "dead" /\ frame[h].dby = "task" /\ ~frame[h].rawp

C6_Select ==
  \A t \in Threads :
    LET f == cur[t] IN
    (f # 0 /\ Live(f) /\ frame[f].pc = "fin" /\ frame'[f] # frame[f])
      => IF frame[f].cont # 0
           THEN /\ cur'[t] = frame[f].cont
                /\ frame'[f] = [frame[f] EXCEPT !.pc = "done"]
                /\ frame'[frame[f].cont].pc = "res_task"
           ELSE IF frame[f].det
             THEN /\ frame'[f].st = "dead" /\ frame'[f].dby = "self"
                  /\ frame'[f].dcount = 1
                  /\ cur'[t] = 0
             ELSE /\ frame'[f] = [frame[f] EXCEPT !.pc = "done"]
                  /\ cur'[t] = 0

C6_Parked ==
  \A f \in Frames :
    (Live(f) /\ frame[f].pc = "done" /\ frame'[f] # frame[f])
      => frame'[f].st = "dead" /\ frame'[f].dby = "task"

\* C6 (final-suspension selection): the step a coroutine takes after its
\* body has finished does exactly one of three things, in this order of
\* priority: with a continuation, control goes to it and the frame is
\* kept; otherwise, if detached, the frame destroys itself; otherwise the
\* frame stays, suspended at its final point, and nothing changes it any
\* more but the destructor of the task value that owns it.
C6_FinalSelection == [][C6_Select /\ C6_Parked]_vars

\* a detached coroutine that also had a continuation went to the
\* continuation and kept its frame
C6_Witness ==
  \E f \in Frames, t \in Threads :
    /\ Live(f) /\ frame[f].pc = "done" /\ frame[f].det /\ frame[f].cont # 0
    /\ cur[t] = frame[f].cont

\* C7 (symmetric transfer): while a coroutine waits for a task it has
\* awaited, it is that task's continuation and the task's coroutine has
\* been entered; and when it comes back from an await during which nothing
\* below it waited for an external producer, it is still inside the
\* scheduler job in which it awaited: run() has dequeued nothing since and
\* no job was built for it or for the awaited task.
C7_SymmetricTransfer ==
  \A f \in Frames :
    /\ (Live(f) /\ frame[f].pc = "aw_task") =>
         /\ frame[frame[f].tmp].cont = f
         /\ frame[frame[f].tmp].pc # "init"
    /\ (Live(f) /\ frame[f].pc = "res_task" /\ ~frame[f].ext) =>
         /\ Len(disp) = frame[f].adisp
         /\ frame[f].adisp > 0
         /\ cur["loop"] = f /\ loop.pc = "coro" /\ loop.job = disp[frame[f].adisp]
         /\ \A j \in (frame[f].ajobs + 1)..Len(jobs) :
              jobs[j].h \notin {f, frame[f].tmp}

\* an awaiter is back from its await within the job in which it awaited,
\* the awaited coroutine having finished, while the user posted another
\* job in the meantime
C7_Witness ==
  \E f \in Frames :
    /\ Live(f) /\ frame[f].pc = "res_task" /\ ~frame[f].ext
    /\ frame[frame[f].tmp].pc = "done"
    /\ frame[frame[f].tmp].cont = f
    /\ Len(jobs) > frame[f].ajobs

StartJobs(js, en, h) ==
  {i \in 1..Len(en) : js[en[i]].h = h /\ js[en[i]].op = "start"}

C8_StartReturns ==
  \A t \in PostThreads :
    (posting[t].ph = "enq" /\ posting[t].op = "start" /\ posting'[t].ph = "idle")
      => /\ slot'[posting[t].arg] = 0
         /\ frame'[jobs[posting[t].id].h].det
         /\ jobs[posting[t].id].kind = "resume"
         /\ Cardinality(StartJobs(jobs', enq', jobs[posting[t].id].h)) = 1

C8_DestroyedByRun ==
  \A f \in Frames :
    (Live(f) /\ frame[f].det /\ frame'[f].st = "dead")
      => /\ cur["loop"] = f /\ loop.pc = "coro" /\ frame[f].pc = "fin"
         /\ frame'[f].dby = "self" /\ frame'[f].dcount = 1

C8_NeverParked ==
  \A f \in Frames : (Live(f) /\ frame[f].det) => frame[f].pc # "done"

\* C8 (detach safety): when start() returns, the task value is empty, the
\* promise is marked detached and exactly one job resuming the handle was
\* appended on behalf of start; a detached coroutine never stays parked at
\* its final suspension point: its frame is destroyed, once, by the job of
\* run() in which its body finishes.
C8_DetachSafety ==
  [](C8_NeverParked) /\ [][C8_StartReturns /\ C8_DestroyedByRun]_vars

\* start() has returned and the started coroutine, after a trip through
\* schedule(), has finished and destroyed its frame
C8_Witness ==
  \E j \in 1..Len(jobs), k \in 1..Len(jobs) :
    /\ jobs[j].op = "start" /\ j \in returned
    /\ jobs[k].op = "await" /\ jobs[k].h = jobs[j].h
    /\ frame[jobs[j].h].st = "dead" /\ frame[jobs[j].h].dby = "self"
    /\ \A s \in Slots : slot[s] # jobs[j].h

C9_Drop ==
  \A s \in Slots :
    (slot[s] # NoTask /\ slot'[s] = NoTask)
      => /\ slot[s] \in Frames =>
              /\ frame'[slot[s]].st = "dead"
              /\ frame'[slot[s]].dby = "task"
              /\ frame'[slot[s]].dcount = 1
         /\ slot[s] = 0 => frame' = frame
         /\ \A f \in Frames : frame[f].det => frame'[f] = frame[f]

\* C9 (drop without use): the destructor of a task value that still owns
\* its handle destroys the frame, whether the coroutine never ran or ran
\* part of its body; the destructor of a task value that was started (and
\* is therefore empty) changes no frame, and no destructor ever changes
\* the frame of a started coroutine.
C9_DropWithoutUse == [][C9_Drop]_vars

\* both task values are gone: the frame of the one that was not started
\* is destroyed after it ran part of its body, the frame of the started
\* one is alive and still queued
C9_Witness ==
  \E f \in Frames, g \in Frames :
    /\ \A s \in Slots : slot[s] = NoTask
    /\ frame[f].st = "dead" /\ frame[f].dby = "task" /\ frame[f].rawp
    /\ Live(g) /\ frame[g].det /\ frame[g].pc = "init"
    /\ \E i \in 1..Len(q) : jobs[q[i]].h = g

C10_Step ==
  \A c \in CancelStates :
    /\ cancelled[c] => cancelled'[c]
    /\ (reqDone[c] > 0 /\ reqDone'[c] # reqDone[c]) => cancelled'[c] = cancelled[c]

C10_Observed ==
  \A c \in CancelStates :
    reqDone[c] > 0 => /\ StateIsCancelled(c)
                      /\ SourceIsCancelled(c)
                      /\ TokenCanCancel(c) /\ TokenIsCancelled(c)

\* C10 (cancellation monotonicity): the flag of a cancel state never goes
\* back from true to false; once a request_cancel() has returned, the
\* state, its source and its tokens all report cancelled; and a repeated
\* request_cancel() leaves the flag as it was.
C10_CancelMonotonic == [](C10_Observed) /\ [][C10_Step]_vars

\* cancellation requested twice, and observed by a pool wrapper that
\* skipped its function
C10_Witness ==
  \E c \in CancelStates, f \in Frames :
    /\ reqDone[c] = 2 /\ cancelled[c]
    /\ frame[f].tok = c /\ frame[f].aex = "canceled"

C12_EmptyToken ==
  \A k \in TokenIds :
    (tokens[k].ex /\ tokens[k].from = 0) =>
      /\ tokens[k].st = 0
      /\ ~TokenCanCancel(tokens[k].st)
      /\ ~TokenIsCancelled(tokens[k].st)

\* a default token and a copy of it exist while every source has been
\* cancelled, twice
C12_Witness ==
  /\ \A c \in CancelStates : reqDone[c] = 2 /\ cancelled[c]
  /\ tokens[1] = DefaultToken /\ tokens[2] = DefaultToken
  /\ \E k \in TokenIds : tokens[k].ex /\ tokens[k].from # 0

\* the jobs built by thread_pool::ctx_post for the awaiting coroutine h
PoolJobs(h) == {j \in 1..Len(jobs) : jobs[j].op = "pool" /\ jobs[j].h = h}

\* C13 (pool resumption): the closure of a pool submission runs on the
\* worker thread only; the worker never executes a coroutine; the job that
\* resumes the awaiting coroutine is built by the worker once the closure
\* is over; and the coroutine goes past its await only when the loop
\* thread has dequeued that job, every resumption being the loop's.
C13_PoolResumption ==
  /\ cur["worker"] = 0
  /\ \A f \in Frames :
       (Live(f) /\ frame[f].kind = "pool") =>
         /\ frame[f].fnby \subseteq {"worker"}
         /\ \A r \in frame[f].res : r[1] = "loop"
         /\ PoolJobs(f) # {} =>
              (frame[f].aex # "none" \/ frame[f].aval # NoVal)
         /\ frame[f].pc \in {"res_pool", "fin", "done"} =>
              /\ \E i \in 1..Len(disp) : disp[i] \in PoolJobs(f)
              /\ Cardinality(PoolJobs(f)) = 1
         /\ frame[f].pc \in {"init", "body"} => PoolJobs(f) = {}
         /\ frame[f].pc = "aw_pool" =>
              \A i \in 1..Len(disp) :
                disp[i] \in PoolJobs(f) => (loop.pc = "job" /\ loop.job = disp[i])

\* the closure ran on the worker and returned, the worker's post has
\* returned, and the loop thread has resumed the awaiting coroutine, which
\* holds the closure's value
C13_Witness ==
  \E f \in Frames :
    /\ Live(f) /\ frame[f].kind = "pool" /\ frame[f].pc = "fin"
    /\ frame[f].fnruns = 1 /\ frame[f].fnby = {"worker"}
    /\ frame[f].val = PoolFn(f)
    /\ cur["loop"] = f
    /\ posting["worker"].ph = "idle"

\* the worker takes the next wrapper off the pool queue (and runs it)
PoolPick == poolq # <<>> /\ poolq' = Tail(poolq)

\* C14 (pool cancellation), the worker's step: when the token is cancelled
\* as the worker picks the job up, the closure is not invoked and a
\* canceled failure is stored; otherwise the closure is invoked, once; and
\* the closure is invoked by no other step.
C14_Pick ==
  /\ PoolPick =>
       LET f == Head(poolq) IN
         IF TokenIsCancelled(frame[f].tok)
           THEN /\ frame'[f].fnruns = 0 /\ frame'[f].fnout = "none"
                /\ frame'[f].aex = "canceled" /\ frame'[f].aval = NoVal
           ELSE /\ frame'[f].fnruns = 1 /\ frame'[f].fnout # "none"
                /\ frame'[f].aex # "canceled"
  /\ \A f \in Frames :
       (Live(f) /\ frame'[f].st = "live" /\ frame'[f].fnruns # frame[f].fnruns) =>
         (PoolPick /\ Head(poolq) = f)

\* C14, the awaiter: a coroutine that went past its pool await either
\* holds the canceled failure and its closure never ran, or its closure ran
\* exactly once; it was resumed by the loop thread only.
C14_Surfaced ==
  \A f \in Frames :
    (Live(f) /\ frame[f].kind = "pool") =>
      /\ frame[f].fnruns <= 1
      /\ frame[f].pc \in {"fin", "done"} =>
           /\ \A r \in frame[f].res : r[1] = "loop"
           /\ IF frame[f].aex = "canceled"
                THEN frame[f].fnruns = 0 /\ frame[f].exc = "canceled"
                ELSE frame[f].fnruns = 1 /\ frame[f].exc # "canceled"

C14_PoolCancellation == [](C14_Surfaced) /\ [][C14_Pick]_vars

\* a submission whose token was cancelled before the worker picked it up:
\* the awaiter has been resumed on the loop thread with the canceled
\* failure and the closure never ran
C14_Witness ==
  \E f \in Frames :
    /\ Live(f) /\ frame[f].kind = "pool" /\ frame[f].pc = "fin"
    /\ frame[f].tok # 0 /\ frame[f].exc = "canceled" /\ frame[f].fnruns = 0
    /\ cur["loop"] = f

\* C15 (pool failure propagation), step by step: a closure that throws
\* leaves the worker with the failure captured and about to post; the
\* worker's next step posts the awaiter's handle whatever the outcome; and
\* await_resume, run by the loop thread, raises the captured failure or
\* yields exactly the value the closure returned.
C15_Step ==
  /\ (posting["worker"].ph = "idle" /\ posting'["worker"].ph = "ran") =>
       LET f == posting'["worker"].arg IN
         /\ cur'["worker"] = 0
         /\ frame'[f].fnout = "throws" =>
              (frame'[f].aex = "boom" /\ frame'[f].aval = NoVal)
         /\ frame'[f].fnout = "returns" =>
              (frame'[f].aex = "none" /\ frame'[f].aval = PoolFn(f))
  /\ (posting["worker"].ph = "ran" /\ posting'["worker"] # posting["worker"]) =>
       /\ posting'["worker"].ph = "enq"
       /\ jobs' = Append(jobs, jobs'[Len(jobs')])
       /\ jobs'[Len(jobs')].kind = "resume"
       /\ jobs'[Len(jobs')].h = posting["worker"].arg
       /\ q' = Append(q, Len(jobs'))
  /\ \A f \in Frames :
       (Live(f) /\ frame[f].pc = "res_pool" /\ frame'[f].pc # "res_pool") =>
         /\ cur["loop"] = f /\ frame'[f].pc = "fin"
         /\ frame[f].fnout = "throws" =>
              (frame'[f].exc = "boom" /\ frame'[f].val = NoVal)
         /\ frame[f].fnout = "returns" =>
              (frame'[f].exc = "none" /\ frame'[f].val = PoolFn(f))

\* C15, in every state: the worker executes no coroutine, and a failure of
\* the closure is held by the awaitable until the awaiter is resumed.
C15_Captured ==
  /\ cur["worker"] = 0
  /\ \A f \in Frames :
       (Live(f) /\ frame[f].fnout = "throws") =>
         /\ frame[f].aex = "boom"
         /\ frame[f].pc \in {"aw_pool", "res_pool"} => frame[f].exc = "none"

C15_PoolFailure == [](C15_Captured) /\ [][C15_Step]_vars

\* the closure threw on the worker, the worker's post returned, and the
\* awaiter, resumed by the loop thread, holds that failure
C15_Witness ==
  \E f \in Frames :
    /\ Live(f) /\ frame[f].kind = "pool" /\ frame[f].pc = "fin"
    /\ frame[f].fnout = "throws" /\ frame[f].exc = "boom"
    /\ frame[f].res = {<<"loop", "job">>}
    /\ cur["loop"] = f /\ posting["worker"].ph = "idle"

\* run() leaves its loop in this step
RunLeaves == loop.pc # "exited" /\ loop'.pc = "exited"

\* C16 (stop drains the queue): run() leaves its loop only when stop has
\* been requested and the queue is empty, and at that moment every job
\* that was in the queue when stop() was called has been executed; stop()
\* itself removes nothing from the queue.
C16_Exit ==
  /\ RunLeaves =>
       /\ stop_requested /\ q = <<>> /\ q' = <<>>
       /\ \A j \in 1..Len(jobs) : jobs[j].atstop => jobs[j].runs = 1
       /\ \A i \in 1..Len(enq) : jobs[enq[i]].runs = 1
  /\ (~stop_requested /\ stop_requested') => q' = q

C17_StopLiveness == (stop_requested /\ loop.pc \in {"wait", "job"}) ~> (loop.pc = "exited")

\* stop() was called by a job on the loop thread, a job posted after that
\* was still executed, and run() has returned
C17_Witness ==
  /\ loop.pc = "exited" /\ stop_requested
  /\ \E i \in 1..Len(jobs), j \in 1..Len(jobs) :
       /\ jobs[i].kind = "stop" /\ jobs[i].runs = 1
       /\ i < j /\ ~jobs[j].atstop /\ jobs[j].runs = 1
       /\ \E a \in 1..Len(disp), b \in 1..Len(disp) :
            a < b /\ disp[a] = i /\ disp[b] = j

\* the positions of job j in a history of job ids
Occurrences(h, j) == {i \in 1..Len(h) : h[i] = j}

\* C18 (thread-safe post, at most once), in every state: every job built
\* by post() was appended to the queue exactly once; the queue holds
\* exactly the appended jobs not yet dequeued, in order; no job was
\* dequeued twice; and a job was invoked at most once, after its dequeue.
C18_Once ==
  /\ \A j \in 1..Len(jobs) :
       /\ Cardinality(Occurrences(enq, j)) = 1
       /\ Cardinality(Occurrences(disp, j)) <= 1
       /\ Cardinality(Occurrences(q, j)) + Cardinality(Occurrences(disp, j)) = 1
       /\ jobs[j].runs <= Cardinality(Occurrences(disp, j))
  /\ Len(enq) = Len(jobs)
  /\ q = SubSeq(enq, Len(disp) + 1, Len(enq))

\* C18, step by step: a post appends its one job at the tail; a job leaves
\* the queue only through run()'s dequeue, which takes the front.
C18_Step ==
  /\ Len(jobs') > Len(jobs) =>
       /\ Len(jobs') = Len(jobs) + 1
       /\ q' = Append(q, Len(jobs'))
  /\ (Len(jobs') = Len(jobs) /\ q' # q) =>
       /\ loop.pc = "wait" /\ loop'.pc = "job"
       /\ q # <<>> /\ q' = Tail(q) /\ loop'.job = Head(q)

C18_PostOnce == [](C18_Once) /\ [][C18_Step]_vars

\* jobs posted concurrently by three threads have all been dequeued and
\* invoked once, the last one before its post() even returned
C18_Witness ==
  /\ Len(jobs) = 3 /\ Len(disp) = 3 /\ q = <<>>
  /\ \A j \in 1..3 : jobs[j].runs = 1
  /\ \E t \in PostThreads : posting[t].ph = "enq"
  /\ {jobs[j].kind : j \in 1..3} = {"fn"}

\* the frames that make up the spawn whose detached coroutine is d
SpawnFrames(d) == {g \in Frames : frame[g].st # "none" /\ frame[g].sp = d}

\* C19 (spawn_detached is detached and leak-free): the detached coroutine
\* is posted once and owns the user's task; it is never left parked at its
\* final suspension; once it has gone, it and every frame of its spawn
\* have been destroyed exactly once, the detached frame by itself; while
\* it lives the user's frame lives, and a finished user frame means the
\* detached coroutine is being run to its end by the loop thread; and
\* every job queued or about to be invoked targets a live, suspended frame.
C19_SpawnLeakFree ==
  /\ \A f \in Frames : frame[f].dcount <= 1 /\ ~frame[f].stale
  /\ \A d \in Frames :
       (frame[d].st # "none" /\ frame[d].sp = d) =>
         /\ Cardinality({j \in 1..Len(jobs) : jobs[j].op = "spawn" /\ jobs[j].h = d}) = 1
         /\ Live(d) =>
              /\ frame[d].pc # "done"
              /\ Live(frame[d].tmp)
              /\ frame[frame[d].tmp].pc = "done" => cur["loop"] = d
              /\ \A s \in Slots : slot[s] \notin SpawnFrames(d)
         /\ frame[d].st = "dead" =>
              /\ frame[d].dby = "self"
              /\ \A g \in SpawnFrames(d) :
                   frame[g].st = "dead" /\ frame[g].dcount = 1
              /\ \A t \in Threads : cur[t] \notin SpawnFrames(d)
  /\ \A i \in 1..Len(q) : Resumable(frame, jobs[q[i]].h)
  /\ loop.pc = "job" => Resumable(frame, jobs[loop.job].h)

\* a spawned task that awaited a child has completed: the detached frame,
\* the user's frame and the child's frame are all gone, each destroyed
\* once, and the loop is back waiting
C19_Witness ==
  \E d \in Frames :
    /\ frame[d].sp = d /\ frame[d].st = "dead" /\ frame[d].dby = "self"
    /\ Cardinality(SpawnFrames(d)) = 3
    /\ \A g \in SpawnFrames(d) : frame[g].st = "dead" /\ frame[g].dcount = 1
    /\ loop.pc = "wait" /\ q = <<>>

\* a coroutine nobody awaits: started with start(scheduler), or the
\* internal coroutine of a spawn
DetachedRoot(f) ==
  Live(f) /\ frame[f].cont = 0 /\ (frame[f].det \/ frame[f].kind = "spawn")

\* the failure a detached root ends with: its own, or the one of the task
\* a spawn awaited
RootFailure(f) ==
  IF frame[f].kind = "spawn" THEN frame[frame[f].tmp].exc ELSE frame[f].exc

\* C20 (detached failures are swallowed), in every state: no failure has
\* left a coroutine's resume() into the job that called it, run() is
\* intact, and the internal coroutine of a spawn never holds a failure.
C20_NoEscape ==
  /\ loop.pc # "crashed"
  /\ \A f \in Frames :
       /\ frame[f].pc # "escaped"
       /\ frame[f].kind = "spawn" => frame[f].exc = "none"

\* C20, the step in which a failed detached root ends: its frame is
\* destroyed (once), run() goes back to waiting for the next job, and no
\* surviving coroutine is resumed or handed the failure.
C20_Dropped ==
  \A f \in Frames :
    (DetachedRoot(f) /\ RootFailure(f) # "none" /\ frame'[f].st # "live") =>
      /\ frame'[f].st = "dead" /\ frame'[f].dcount = 1 /\ frame'[f].dby = "self"
      /\ loop.pc = "coro" /\ loop'.pc = "wait" /\ cur'["loop"] = 0
      /\ \A g \in Frames :
           (Live(g) /\ frame'[g].st = "live") =>
             (frame'[g].exc = frame[g].exc /\ frame'[g].pc = frame[g].pc)

C20_DetachedFailures == [](C20_NoEscape) /\ [][C20_Dropped]_vars

\* a spawned task and a started task both failed: their frames are gone
\* with the failure, the second job was dispatched after the first
\* failure, and run() is waiting for more
C20_Witness ==
  /\ loop.pc = "wait" /\ Len(disp) = 2
  /\ \E d \in Frames, u \in Frames :
       /\ frame[d].sp = d /\ frame[d].st = "dead"
       /\ u # d /\ frame[u].sp = d /\ frame[u].swal = "boom"
  /\ \E f \in Frames :
       /\ frame[f].sp = 0 /\ frame[f].det /\ frame[f].st = "dead"
       /\ frame[f].swal = "boom" /\ frame[f].dby = "self"

\* the jobs that resume coroutine h, whoever built them
ResumeJobs(h) == {j \in 1..Len(jobs) : jobs[j].kind = "resume" /\ jobs[j].h = h}

\* C21 (network await, token already cancelled), the suspending step: when
\* the token is cancelled as the awaiter suspends, the starter is not
\* called, no operation reaches the reactor, and one job resuming the
\* awaiter is appended to the loop's queue.
C21_Suspend ==
  \A f \in Frames :
    (Live(f) /\ frame[f].kind = "net" /\ frame[f].pc = "body"
       /\ frame'[f].pc = "aw_net" /\ TokenIsCancelled(frame[f].tok)) =>
      /\ frame'[f].nstart = 0 /\ frame'[f].csus
      /\ netops' = netops
      /\ Len(jobs') = Len(jobs) + 1
      /\ jobs'[Len(jobs')].kind = "resume" /\ jobs'[Len(jobs')].h = f
      /\ q' = Append(q, Len(jobs'))

\* C21, afterwards: such an awaiter never has its starter called nor an
\* operation pending, is resumed by the loop thread only, and its await
\* ends with the canceled failure.
C21_Completes ==
  \A f \in Frames :
    (Live(f) /\ frame[f].kind = "net" /\ frame[f].csus) =>
      /\ frame[f].nstart = 0 /\ f \notin netops
      /\ frame[f].aex = "none" /\ frame[f].aval = NoVal
      /\ \A r \in frame[f].res : r[1] = "loop"
      /\ frame[f].pc \in {"aw_net", "res_net", "fin", "done"}
      /\ frame[f].pc \in {"fin", "done"} =>
           (frame[f].exc = "canceled" /\ frame[f].val = NoVal)

C21_CancelledBeforeSuspend == [](C21_Completes) /\ [][C21_Suspend]_vars

\* an awaiter that found its token cancelled when suspending has been
\* resumed by a job on the loop thread and holds the canceled failure
C21_Witness ==
  \E f \in Frames :
    /\ Live(f) /\ frame[f].kind = "net" /\ frame[f].csus
    /\ frame[f].pc = "fin" /\ frame[f].exc = "canceled"
    /\ frame[f].nstart = 0 /\ cur["loop"] = f
    /\ Cardinality(ResumeJobs(f)) = 2

\* the result slot of awaitable f holds a completed result: a non-ok code
\* and no value, or the ok code and the value
NetStored(fr, f) ==
  \/ fr[f].aec = "err" /\ fr[f].aval = NoVal
  \/ fr[f].aec = "ok" /\ fr[f].aval = 5

\* C23 (network completion hand-off), in every state: the net thread
\* executes no coroutine; a job built by the completion callback exists
\* only once the result slot is written; and a coroutine that went past
\* a network await whose operation was started sees the completed result,
\* every one of its resumptions being the loop thread's.
C23_Observed ==
  /\ cur["net"] = 0
  /\ \A j \in 1..Len(jobs) :
       (jobs[j].op = "net" /\ Live(jobs[j].h)) => NetStored(frame, jobs[j].h)
  /\ \A f \in Frames :
       (Live(f) /\ frame[f].kind = "net") =>
         /\ \A r \in frame[f].res : r[1] = "loop"
         /\ (frame[f].pc = "res_net" /\ frame[f].nstart = 1 /\ frame[f].aex = "none") =>
              /\ NetStored(frame, f)
              /\ \E i \in 1..Len(disp) :
                   jobs[disp[i]].op = "net" /\ jobs[disp[i]].h = f

\* C23, the callback's two steps on the net thread: first the error code
\* (and the value when the code is ok) is stored and nothing is posted;
\* then the handle is posted and the slot is left alone.
C23_Callback ==
  /\ (posting["net"].ph = "idle" /\ posting'["net"].ph = "ran") =>
       /\ NetStored(frame', posting'["net"].arg)
       /\ jobs' = jobs /\ q' = q
  /\ (posting["net"].ph = "ran" /\ posting'["net"] # posting["net"]) =>
       /\ posting'["net"].ph = "enq"
       /\ frame' = frame
       /\ Len(jobs') = Len(jobs) + 1
       /\ jobs'[Len(jobs')].kind = "resume"
       /\ jobs'[Len(jobs')].h = posting["net"].arg
       /\ q' = Append(q, Len(jobs'))

C23_NetHandOff == [](C23_Observed) /\ [][C23_Callback]_vars

\* an operation completed ok on the net thread; the awaiter, resumed by
\* the loop thread through the callback's job, is about to read the value
C23_Witness ==
  \E f \in Frames :
    /\ Live(f) /\ frame[f].kind = "net" /\ frame[f].pc = "res_net"
    /\ frame[f].nstart = 1 /\ frame[f].aec = "ok" /\ frame[f].aval = 5
    /\ cur["loop"] = f /\ posting["net"].ph = "idle"

\* C22 (network await outcome precedence): the step in which the awaiter
\* leaves await_resume produces, looking at the awaitable as it is at that
\* moment, the canceled failure if the token is cancelled; else the
\* failure captured from the starter; else the system failure that
\* carries the reactor's non-ok code; else the stored value; and it
\* produces exactly one of a failure and a value.
C22_Step ==
  \A f \in Frames :
    (Live(f) /\ frame[f].pc = "res_net" /\ frame'[f].pc # "res_net") =>
      /\ frame'[f].pc = "fin"
      /\ (frame'[f].exc # "none") # (frame'[f].val # NoVal)
      /\ IF frame[f].tok # 0 /\ cancelled[frame[f].tok]
           THEN frame'[f].exc = "canceled"
           ELSE IF frame[f].aex # "none"
             THEN frame'[f].exc = frame[f].aex
             ELSE IF frame[f].aec = "err" THEN frame'[f].exc = "sys"
             ELSE IF frame[f].aec = "eof" THEN frame'[f].exc = "sys_eof"
             ELSE frame'[f].exc = "none" /\ frame'[f].val = 5

C22_NetPrecedence == [][C22_Step]_vars

\* the awaiter whose starter threw after the callback had reported a
\* non-ok code, and whose token is not cancelled, holds the starter's
\* failure
C22_Witness ==
  \E f \in Frames :
    /\ Live(f) /\ frame[f].kind = "net" /\ frame[f].pc = "fin"
    /\ frame[f].aex = "starter" /\ frame[f].aec = "eof"
    /\ frame[f].tok # 0 /\ ~cancelled[frame[f].tok] /\ reqDone[frame[f].tok] = 0
    /\ frame[f].exc = "starter"

\* how the body of a coroutine of the task smoke test leaves, as far as
\* its kind alone decides it
ThrowsAlways(k) == k = "throw"
ReturnsAlways(k) == k \in {"ret", "yield", "awaitc"}

\* C28 (result state of a task<int>), in every state: before the final
\* suspension neither the value nor the exception of the promise is set;
\* from the final suspension on exactly one of them is set, the value for
\* a body that returns, the exception for a body that throws.
C28_State ==
  \A f \in Frames :
    Live(f) =>
      IF frame[f].pc \in {"fin", "done"}
        THEN /\ (frame[f].val # NoVal) # (frame[f].exc # "none")
             /\ ReturnsAlways(frame[f].kind) => frame[f].val # NoVal
             /\ ThrowsAlways(frame[f].kind) => frame[f].exc # "none"
        ELSE frame[f].val = NoVal /\ frame[f].exc = "none"

\* C28, the step in which an awaiting body reaches its final suspension:
\* the exception is set exactly when the awaited child had failed and the
\* body does not catch, and the value is present exactly otherwise.
C28_Step ==
  \A f \in Frames :
    (Live(f) /\ frame[f].pc = "res_task" /\ frame'[f].pc = "fin") =>
      LET uncaught == frame[frame[f].tmp].exc # "none" /\ frame[f].kind = "await"
      IN /\ (frame'[f].exc # "none") <=> uncaught
         /\ (frame'[f].val # NoVal) <=> ~uncaught

C28_ResultState == [](C28_State) /\ [][C28_Step]_vars

\* an awaiting body that let its child's failure through sits at its
\* final suspension with the exception and no value, next to a completed
\* task that holds a value and no exception
C28_Witness ==
  \E f \in Frames, g \in Frames :
    /\ Live(f) /\ frame[f].kind = "await" /\ frame[f].pc = "fin"
    /\ frame[f].exc = "boom" /\ frame[f].val = NoVal
    /\ Live(g) /\ frame[g].pc = "done" /\ frame[g].kind = "ret"
    /\ frame[g].val = 42 /\ frame[g].exc = "none"

\* C29 (value transport), in every state: compute_value, completed,
\* holds the 42 it passed to return_value, a rescheduling task its 41.
C29_Stored ==
  \A f \in Frames :
    (Live(f) /\ frame[f].pc \in {"fin", "done"} /\ frame[f].exc = "none") =>
      /\ frame[f].kind = "ret" => frame[f].val = 42
      /\ frame[f].kind = "yield" => frame[f].val = 41

\* C29, the step in which an awaiter leaves await_resume with a value:
\* the awaited task had completed before the awaiter went on, and the
\* awaiter returns the value stored in the awaited promise plus one.
C29_Step ==
  \A f \in Frames :
    (Live(f) /\ frame[f].pc = "res_task" /\ frame'[f].pc = "fin"
       /\ frame[frame[f].tmp].exc = "none") =>
      /\ Done(frame, frame[f].tmp)
      /\ frame[frame[f].tmp].val # NoVal
      /\ frame'[f].val = frame[frame[f].tmp].val + 1

C29_ValueTransport == [](C29_Stored) /\ [][C29_Step]_vars

\* chain over chain over compute_value: the outer awaiter completed
\* with 44, its awaited chain having completed with 43 from compute's 42
C29_Witness ==
  \E f \in Frames :
    /\ Live(f) /\ frame[f].kind = "await" /\ frame[f].pc \in {"fin", "done"}
    /\ frame[f].val = 44 /\ frame[f].exc = "none"

\* positions of the trace at which capture i met one of the events in evs
SigAt(i, evs) ==
  {p \in 1..Len(sig.trace) : sig.trace[p].i = i /\ sig.trace[p].ev \in evs}

\* the capture numbers in the order the loop dispatched them
SigDispatched ==
  SelectSeq(sig.trace, LAMBDA e : e.ev \in {"wake", "pend"})

\* C24 (signal delivery), in every state: the loop dispatched the
\* captures in the order the capture thread observed them, each once;
\* the callback of a capture ran before its dispatch; and a capture
\* handed to a waiter is not in pending.
C24_Order ==
  /\ \A k \in 1..Len(SigDispatched) : SigDispatched[k].i = k
  /\ \A i \in 1..Len(sig.caught) :
       /\ \A c \in SigAt(i, {"cb"}), d \in SigAt(i, {"wake", "pend"}) : c < d
       /\ SigAt(i, {"wake"}) # {} => \A k \in 1..Len(sig.pending) : sig.pending[k] # i

\* C24, the two halves of a delivery job: first the callback runs if one
\* is set, and nothing else of the bridge changes; then the waiter, if
\* one is installed, is resumed with the signal number and pending is
\* left alone, else the capture is appended to pending.
C24_Deliver ==
  /\ (loop.pc = "job" /\ loop'.pc = "sigd") =>
       /\ sig'.trace = IF sig.cb
                         THEN Append(sig.trace,
                                     SigEvent("cb", jobs[loop.job].h, "loop", 0))
                         ELSE sig.trace
       /\ sig'.pending = sig.pending /\ sig'.waiters = sig.waiters
       /\ frame' = frame
  /\ (loop.pc = "sigd" /\ loop'.pc # "sigd") =>
       LET i == jobs[loop.job].h IN
       IF sig.waiters # {}
         THEN \E w \in sig.waiters :
                /\ frame'[w].pc = "res_sig" /\ frame'[w].aval = sig.caught[i]
                /\ cur'["loop"] = w
                /\ sig'.waiters = sig.waiters \ {w}
                /\ sig'.pending = sig.pending
         ELSE /\ sig'.pending = Append(sig.pending, i)
              /\ frame' = frame /\ cur' = cur

C25_Single ==
  /\ Cardinality(sig.waiters) <= 1
  /\ \A w \in sig.waiters :
       Live(w) /\ frame[w].pc = "aw_sig" /\ \A t \in Threads : cur[t] # w
  /\ \A i \in 1..Len(sig.caught) : Cardinality(SigAt(i, {"wake", "ready"})) <= 1

\* C25, the await step: with a signal pending the awaiter takes the head
\* of pending and goes on without suspending; with nothing pending and no
\* waiter it becomes the waiter and suspends.
C25_Await ==
  \A t \in Threads :
    LET f == cur[t] IN
    (f # 0 /\ frame[f].kind = "sigw" /\ frame[f].pc = "body" /\ frame'[f].pc # "body") =>
      IF sig.pending # <<>>
        THEN /\ sig'.pending = Tail(sig.pending)
             /\ frame'[f].pc = "res_sig"
             /\ frame'[f].aval = sig.caught[Head(sig.pending)]
             /\ cur'[t] = f
             /\ sig'.waiters = sig.waiters
        ELSE /\ sig'.pending = <<>>
             /\ sig'.waiters = {f}
             /\ frame'[f].pc = "aw_sig"
             /\ cur'[t] = 0

C25_AsyncWait == [](C25_Single) /\ [][C25_Await]_vars

\* one coroutine took the pending signal without suspending and ran to
\* its end; another one, finding nothing pending, is now the waiter
C25_Witness ==
  \E f \in Frames, w \in Frames :
    /\ f # w /\ sig.waiters = {w} /\ sig.pending = <<>>
    /\ frame[w].pc = "aw_sig"
    /\ sig.trace = <<SigEvent("pend", 1, "loop", 0), SigEvent("ready", 1, "loop", f)>>

\* the delivery jobs built for capture i
SigJobs(i) == {j \in 1..Len(jobs) : jobs[j].kind = "sig" /\ jobs[j].h = i}

\* C26 (signal marshaling), in every state: every capture has exactly
\* one delivery job; the callback ran at most once per capture, on the
\* loop thread, inside a delivery job that run() dequeued; every waiter
\* was woken by the loop thread; the capture thread executes no coroutine.
C26_OnLoop ==
  /\ cur["worker"] = 0
  /\ \A i \in 1..Len(sig.caught) :
       /\ Cardinality(SigJobs(i)) = 1
       /\ Cardinality(SigAt(i, {"cb"})) <= 1
       /\ SigAt(i, {"cb"}) # {} =>
            \E j \in SigJobs(i) :
              jobs[j].runs = 1 /\ \E k \in 1..Len(disp) : disp[k] = j
  /\ \A p \in 1..Len(sig.trace) :
       sig.trace[p].ev \in {"cb", "wake", "pend"} => sig.trace[p].th = "loop"
  /\ \A f \in Frames : \A r \in frame[f].res : r[1] = "loop"

\* C26, the steps: a capture builds one job and runs nothing; the
\* delivery job invokes a registered callback exactly once.
C26_Steps ==
  /\ Len(sig'.caught) > Len(sig.caught) =>
       /\ sig'.trace = sig.trace /\ frame' = frame /\ cur' = cur
       /\ sig'.waiters = sig.waiters /\ sig'.pending = sig.pending
       /\ Len(jobs') = Len(jobs) + 1
       /\ jobs'[Len(jobs')].kind = "sig" /\ jobs'[Len(jobs')].h = Len(sig'.caught)
       /\ q' = Append(q, Len(jobs'))
  /\ (loop.pc = "job" /\ jobs[loop.job].kind = "sig" /\ loop' # loop /\ sig.cb) =>
       Cardinality({p \in 1..Len(sig'.trace) :
                      sig'.trace[p] = SigEvent("cb", jobs[loop.job].h, "loop", 0)}) = 1

C26_SignalMarshaling == [](C26_OnLoop) /\ [][C26_Steps]_vars

\* the callback was registered between two captures: it ran for the
\* second one only, on the loop thread, while the capture thread is
\* still inside its second post
C26_Witness ==
  /\ Len(sig.caught) = 2 /\ sig.cb
  /\ SigAt(1, {"cb"}) = {} /\ SigAt(1, {"wake", "pend"}) # {}
  /\ SigAt(2, {"cb"}) # {}
  /\ loop.pc = "sigd"

\* place of a member in the teardown order pool, signals, network,
\* timers, scheduler
TeardownRank(m) ==
  CASE m = "cpu_pool_" -> 1
    [] m = "signals_" -> 2
    [] m = "net_" -> 3
    [] m = "timer_" -> 4
    [] OTHER -> 5

\* C27 (teardown order of the runtime context): the services that were
\* built are torn down in the order pool, signals, network, timers, all
\* of them before the scheduler; no service thread posts to a destroyed
\* scheduler; and once the context is gone everything built is torn down.
C27_TeardownOrder ==
  /\ \A a \in 1..Len(io.torn), b \in 1..Len(io.torn) :
       a < b => TeardownRank(io.torn[a]) < TeardownRank(io.torn[b])
  /\ ~io.lost
  /\ io.phase = "gone" => io.up = {}

\* what holds for both classes: every service is torn down before the
\* scheduler, and no post reaches a destroyed scheduler
C27_BeforeScheduler ==
  /\ "sched_" \notin io.up => io.up = {}
  /\ ~io.lost

\* a context with the pool and the network service built is gone, the
\* network torn down first, then the pool, then the scheduler
C27_Witness ==
  /\ io.phase = "gone"
  /\ io.torn = <<"net_", "cpu_pool_", "sched_">>

\* C30 (jobs run outside the scheduler lock), in every state: while a
\* job executes, m_ is not held by run(); and a thread waiting for m_
\* waits for a thread that is inside a critical section of post, stop,
\* pending or run's dequeue, never for itself or for a job.
C30_Outside ==
  /\ loop.pc = "job" => ~(mtx.owner = "loop" /\ mtx.hold = "run")
  /\ \A t \in Threads :
       (mtx.op[t].ph = "want" /\ mtx.owner # "none") =>
         /\ mtx.owner # t
         /\ \/ mtx.hold = "call" /\ mtx.op[mtx.owner].ph = "cs"
            \/ mtx.hold = "run" /\ loop.pc = "cs"

\* C30, no deadlock: a job that run() started returns, whether it is a
\* plain callable or one that calls post, stop or pending.
C30_Returns == (loop.pc = "job") ~> (loop.pc # "job")

C30_OutsideLock == [](C30_Outside) /\ C30_Returns

\* while a job that itself called post() and is back from it is still
\* running, another thread is inside the critical section of its post()
C30_Witness ==
  /\ loop.pc = "job" /\ jobs[loop.job].kind = "post"
  /\ mtx.op["loop"].ph = "ret"
  /\ mtx.owner = "user" /\ mtx.op["user"].f = "post" /\ mtx.op["user"].ph = "cs"

\* the jobs built by the schedule awaitable of coroutine f
YieldJobs(f) == {j \in 1..Len(jobs) : jobs[j].op = "await" /\ jobs[j].h = f}

\* position of job j in the sequence s (0 = not in it)
PosIn(s, j) == IF \E i \in 1..Len(s) : s[i] = j
                 THEN CHOOSE i \in 1..Len(s) : s[i] = j
                 ELSE 0

\* C31 (schedule() yield), in every state: a coroutine suspended in
\* schedule() has exactly one job, in the queue or being run; one that went
\* on after schedule() with a scheduler is run by the loop thread from
\* that job, every job enqueued before it having been dequeued before it;
\* with a null scheduler no job was ever built for it.
C31_Queued ==
  \A f \in Frames :
    Live(f) =>
      /\ (frame[f].kind = "yield" /\ frame[f].pc = "aw_sched") =>
           /\ Cardinality(YieldJobs(f)) = 1
           /\ \A j \in YieldJobs(f) :
                PosIn(q, j) # 0 \/ (loop.pc = "job" /\ loop.job = j)
      /\ (frame[f].kind = "yield" /\ frame[f].pc \in {"res_sched", "fin"}) =>
           /\ Cardinality(YieldJobs(f)) = 1
           /\ cur["loop"] = f /\ loop.job \in YieldJobs(f)
           /\ jobs[loop.job].runs = 1
           /\ \A i \in 1..Len(enq) :
                i < PosIn(enq, loop.job) =>
                  (PosIn(disp, enq[i]) # 0 /\ PosIn(disp, enq[i]) < PosIn(disp, loop.job))
      /\ frame[f].kind = "yield0" => YieldJobs(f) = {}

\* C31, the await step: with a scheduler the coroutine suspends and its
\* handle goes to the tail of the queue; with a null scheduler it goes on
\* at once on the same thread and the queue is left alone.
C31_Await ==
  \A t \in Threads :
    LET f == cur[t] IN
    (f # 0 /\ frame[f].pc = "body" /\ frame[f].kind \in {"yield", "yield0"}
       /\ frame'[f].pc # "body") =>
      IF frame[f].kind = "yield"
        THEN /\ frame'[f].pc = "aw_sched" /\ cur'[t] = 0
             /\ Len(jobs') = Len(jobs) + 1
             /\ jobs'[Len(jobs')].kind = "resume" /\ jobs'[Len(jobs')].h = f
             /\ q' = Append(q, Len(jobs'))
        ELSE /\ frame'[f].pc = "res_sched" /\ cur'[t] = f
             /\ q' = q /\ jobs' = jobs

C31_ScheduleYield == [](C31_Queued) /\ [][C31_Await]_vars

\* a coroutine yielded while the handle of a second one was in the
\* queue: the second one, run first, went through a null-scheduler await
\* on the spot and is done; the first is now resumed from its own job
C31_Witness ==
  \E f \in Frames, g \in Frames :
    /\ Live(f) /\ frame[f].kind = "yield" /\ frame[f].pc = "res_sched"
    /\ cur["loop"] = f
    /\ Live(g) /\ frame[g].kind = "yield0" /\ frame[g].pc = "done"
    /\ <<"loop", "inline">> \in frame[g].res
    /\ \E j \in 1..Len(jobs) :
         /\ jobs[j].h = g /\ jobs[j].op = "post"
         /\ PosIn(enq, j) < PosIn(enq, loop.job)
         /\ \E k \in 1..Len(jobs) :
              jobs[k].h = f /\ jobs[k].op = "start" /\ PosIn(enq, k) < PosIn(enq, j)


\* C32 (awaiting a task that is already done), the await step and the
\* step after it: the awaiter does not suspend and the task's frame is
\* left exactly as it was (continuation, suspension point, resumptions);
\* then the awaiter takes the stored failure, or the stored value.
C32_Step ==
  \A t \in Threads :
    LET f == cur[t] IN
    /\ \A s \in Slots :
         (/\ f # 0 /\ frame[f].kind = "awaitu" /\ frame[f].pc = "body"
          /\ frame'[f].pc # "body"
          /\ slot[s] \in Frames /\ frame'[f].uw = slot[s]
          /\ Done(frame, slot[s])) =>
           /\ frame'[f].pc = "res_task" /\ cur'[t] = f
           /\ frame'[slot[s]] = frame[slot[s]]
           /\ q' = q /\ jobs' = jobs
    /\ (/\ f # 0 /\ frame[f].kind = "awaitu" /\ frame[f].pc = "res_task"
        /\ frame'[f].pc # "res_task" /\ frame[f].uw # 0) =>
         LET p == frame[frame[f].uw] IN
         /\ frame'[frame[f].uw] = p
         /\ frame'[f].pc = "fin"
         /\ IF p.exc # "none"
              THEN frame'[f].exc = p.exc /\ frame'[f].val = NoVal
              ELSE frame'[f].val = p.val + 1 /\ frame'[f].exc = "none"

C32_DoneIsReady == [][C32_Step]_vars

\* a task run to its end through its posted handle was then awaited: it
\* still has no continuation and one resumption, and the awaiter, never
\* suspended in the await, has its value plus one
C32_Witness ==
  \E f \in Frames, h \in Frames :
    /\ Live(f) /\ frame[f].kind = "awaitu" /\ frame[f].pc = "fin"
    /\ frame[f].uw = h /\ frame[f].val = 43
    /\ Cardinality(frame[f].res) = 1
    /\ Live(h) /\ frame[h].pc = "done" /\ frame[h].cont = 0
    /\ frame[h].res = {<<"loop", "job">>}

\* C37 (awaiting an empty task value): no await ever goes through a null
\* handle to a promise, be it to read the result or to die on the access.
C37_EmptyAwait == \A f \in Frames : ~frame[f].nullp

\* the awaiter of an empty task value was found ready and, going on,
\* read a promise through the null handle
C37_Witness ==
  \E f \in Frames :
    /\ frame[f].kind = "awaitu" /\ frame[f].uw = 0 /\ frame[f].nullp
    /\ frame[f].pc = "fin" /\ frame[f].ext = FALSE
    /\ Cardinality(frame[f].res) = 1

\* C33 (sticky stop): once stop_requested is set no step resets it, and a
\* run() waiting with the stop requested, whether it was entered before or
\* after the request, goes on to empty the queue and return: it is never
\* left blocked for new jobs.
C33_NoReset == stop_requested => stop_requested'

C33_StickyStop ==
  /\ [][C33_NoReset]_vars
  /\ (stop_requested /\ loop.pc = "wait") ~> (loop.pc = "exited" /\ q = <<>>)

\* run() has returned with the stop requested, having invoked a job that
\* was posted after the stop to a scheduler nobody was running: the run()
\* that invoked it was entered after the stop, and it returned; a job
\* that was in the queue at the stop() call was invoked too
C33_Witness ==
  /\ loop.pc = "exited" /\ stop_requested /\ q = <<>>
  /\ \E i \in 1..Len(jobs), j \in 1..Len(jobs) :
       /\ jobs[i].atstop /\ jobs[i].runs = 1
       /\ ~jobs[j].atstop /\ jobs[j].late /\ jobs[j].runs = 1

\* C34 (no lost wakeup): a job that is in the queue of a scheduler whose
\* run() is under way, be it blocked in cv_.wait, about to block or busy,
\* is eventually invoked by that run(), whatever the interleaving of
\* post's locked enqueue and later notify with run's locked predicate
\* test and wait.
C34_NoLostWakeup ==
  \A j \in 1..MaxLockJobs :
    (running_ /\ PosIn(q, j) > 0) ~> (j <= Len(jobs) /\ jobs[j].runs = 1)

\* a job enqueued while run() was blocked in cv_.wait on an empty queue,
\* no stop requested, has been invoked
C34_Witness ==
  \E j \in 1..Len(jobs) :
    /\ j \in mtx.wake /\ jobs[j].runs = 1
    /\ ~stop_requested /\ running_
    /\ enq[1] = j

\* the posts of handle f made for its await: by await_suspend or by the
\* completion callback
AwaitPosts(f) ==
  {j \in 1..Len(jobs) : jobs[j].kind = "resume" /\ jobs[j].h = f
                        /\ jobs[j].op \in {"await", "net"}}

\* C35 (one post per network await): the handle of a coroutine that
\* awaits one network operation is posted at most once for that await,
\* and no job resumes it when it is not suspended in the await.
C35_PostedOnce ==
  \A f \in Frames : Cardinality(AwaitPosts(f)) <= 1 /\ ~frame[f].stale

\* the starter invoked the completion callback, which stored the result
\* and posted the handle, and then threw: the awaiter is suspended with
\* the result and the captured failure both stored
C35_Witness ==
  \E f \in Frames :
    /\ Live(f) /\ frame[f].pc = "aw_net" /\ frame[f].nstart = 1
    /\ ~frame[f].csus
    /\ frame[f].aex = "starter" /\ frame[f].aval = 5 /\ frame[f].aec = "ok"
    /\ f \notin netops
    /\ \A j \in AwaitPosts(f) : jobs[j].op = "await"

\* C36 (no resumption of a destroyed frame): no job of run() resumes a
\* handle whose frame has been destroyed, whatever the order of
\* post(handle), the destruction of the owning task value and run().
C36_LiveResume ==
  \A f \in Frames : frame[f].stale => Live(f)

\* the user posted the handle of a task it held and dropped the task
\* value, which destroyed the frame; run() then dequeued the job and
\* invoked it
C36_Witness ==
  \E f \in Frames, j \in 1..Len(jobs) :
    /\ ~Live(f) /\ frame[f].stale
    /\ jobs[j].kind = "resume" /\ jobs[j].h = f /\ jobs[j].op = "post"
    /\ jobs[j].runs = 1
    /\ \A s \in Slots : slot[s] # f

\* exactly one of the stored value and the captured failure is present
C38_Present(f) == (frame[f].aval # NoVal) # (frame[f].aex # "none")

\* C38 (result before post): from the moment the worker is about to post
\* the awaiter's handle, the awaitable holds exactly one of the closure's
\* value and a captured failure; it still does when the awaiter is
\* resumed, and await_resume hands on that value or that failure, never
\* an empty slot.
C38_StoredBeforePost ==
  \A f \in Frames :
    (Live(f) /\ frame[f].kind = "pool") =>
      /\ (posting["worker"].ph \in {"ran", "enq"} /\ posting["worker"].arg = f)
           => C38_Present(f)
      /\ PoolJobs(f) # {} => C38_Present(f)
      /\ frame[f].pc = "res_pool" => C38_Present(f)
      /\ frame[f].pc = "fin" =>
           /\ (frame[f].val # NoVal) # (frame[f].exc # "none")
           /\ frame[f].val = frame[f].aval /\ frame[f].exc = frame[f].aex

\* the awaiter has just been resumed by the loop thread, its await_resume
\* still to run: the closure's value is in the slot and no failure is
\* captured
C38_Witness ==
  \E f \in Frames :
    /\ Live(f) /\ frame[f].kind = "pool" /\ frame[f].pc = "res_pool"
    /\ cur["loop"] = f /\ frame[f].aval = PoolFn(f) /\ frame[f].aex = "none"
    /\ Cardinality(PoolJobs(f)) = 1

\* C39 (one look at the token): the pool awaitable reads the token once,
\* when the worker begins the job; the awaiter's outcome is fixed by that
\* reading and the closure alone: not cancelled then, the closure runs
\* once and the awaiter gets its value or its failure, whatever
\* request_cancel() did afterwards.
C39_OneCheck ==
  \A f \in Frames :
    (Live(f) /\ frame[f].kind = "pool") =>
      /\ Len(frame[f].tsaw) <= 1
      /\ (posting["worker"].ph = "fn" /\ posting["worker"].arg = f)
           => (frame[f].tsaw = <<FALSE>> /\ frame[f].aex = "none")
      /\ frame[f].pc = "res_pool" => Len(frame[f].tsaw) = 1
      /\ frame[f].pc = "fin" =>
           /\ Len(frame[f].tsaw) = 1
           /\ IF frame[f].tsaw[1]
                THEN frame[f].exc = "canceled" /\ frame[f].fnruns = 0
                ELSE /\ frame[f].fnruns = 1
                     /\ frame[f].fnout = "returns" =>
                          (frame[f].val = PoolFn(f) /\ frame[f].exc = "none")
                     /\ frame[f].fnout = "throws" => frame[f].exc = "boom"

\* the token was not cancelled when the worker read it and is cancelled
\* now; the closure ran and the awaiter, resumed, holds its value
C39_Witness ==
  \E f \in Frames :
    /\ Live(f) /\ frame[f].kind = "pool" /\ frame[f].pc = "fin"
    /\ frame[f].tsaw = <<FALSE>> /\ TokenIsCancelled(frame[f].tok)
    /\ frame[f].fnruns = 1 /\ frame[f].val = PoolFn(f) /\ frame[f].exc = "none"
====
